---- MODULE Spec2Model ----
(***************************************************************************)
(* ProShot Converter: the client-side job controller of src/App.tsx.       *)
(*                                                                         *)
(* The React component is modelled as a state machine.  Every event        *)
(* handler and every continuation of an async function (the code between   *)
(* two awaits) is one action.  The queue-scan effect of App.tsx lines      *)
(* 84-99 runs after every commit that changed history, processingId or     *)
(* isQueueRunning, before the next event is handled, so it is composed     *)
(* into every action that changes one of them (operator Scan).             *)
(*                                                                         *)
(* Not modelled: the display-only fields timestamp and originalFilename,   *)
(* the counters totalRatings / aiMemorySize (functions of the rating log), *)
(* isDragging, isSettingsLocked (a CSS class only), and saving / deleting  *)
(* presets (the stored presets are a fixed set here).                      *)
(***************************************************************************)
EXTENDS Integers, Sequences, FiniteSets, TLC

\* ------------------------------------------------------------- bounds
\* A behaviour is explored within a budget: the number of files the user
\* uploads, of setting changes and of rating clicks (Budgets below).
\* Files uploaded in a behaviour that changes no setting and rates nothing.
MaxJobs == 3
\* Largest number of files handed to one upload.
MaxBatch == 2
\* Setting changes in a behaviour that uploads one file.
MaxSettingChanges == 2
\* Rating clicks in a behaviour that uploads at most RatedJobs files.
MaxRatings == 2
RatedJobs == 2
\* Longest rating log found in localStorage when the page loads.
MaxStoredLog == 4
\* The capacity ceiling of App.tsx line 8.  It is 30 in the source; the
\* model scales it down so that the ceiling is reached with MaxJobs jobs.
MAX_QUEUE_SIZE == 2

\* ---------------------------------------------------------- constants
THROTTLE_MS == 1000
COOLDOWN_MS == 10000
HIGH_RATING == 4

\* ------------------------------------------------------------- values
NoId == 0
Undefined == "undefined"
EmptyString == ""
Bytes == "bytes"
ImageMime == "image/jpeg"

ShadowIntensities == {"soft", "hard", "long"}
MaterialTypes == {"standard", "metal", "silver", "patina", "ammonia", "stone", "texture"}
MetalFamily == {"metal", "patina", "silver", "ammonia"}
AspectRatios == {"1:1", "16:9", "4:3", "9:16", "3:4"}
PatinaVariations == {"subtle", "standard", "extreme"}

\* The values the model draws for the sliders and selectors.
AngleSamples == {0, 135}
DistanceSamples == {0, 20}
TextureSamples == {0, 50}
PatinaSamples == {0, 50}
IntensitySamples == {"soft", "hard"}
AspectSamples == {"1:1", "16:9"}
VariationSamples == {"standard", "extreme"}
MaterialSamples == {"standard", "metal", "silver", "patina", "texture"}
RatingSamples == {3, 5}

\* JavaScript truthiness of a string-valued field (undefined and '' are falsy).
Truthy(v) == v \notin {Undefined, EmptyString}

\* a || b for a string-valued field
StrOr(a, b) == IF Truthy(a) THEN a ELSE b

\* a || b for a number-valued field (0 is falsy)
NumOr(a, b) == IF a # 0 THEN a ELSE b

\* The errors the external call is made to throw: an HTTP status and the
\* marker substrings its message contains.
KeyExpiredText == "Requested entity was not found"
ErrorSamples ==
    { [status |-> 500, message |-> {}],
      [status |-> 429, message |-> {}],
      [status |-> 500, message |-> {"quota"}],
      [status |-> 500, message |-> {"429"}],
      [status |-> 500, message |-> {KeyExpiredText}],
      [status |-> 429, message |-> {KeyExpiredText, "quota"}] }

\* The files handed to an upload: a readable image, a readable image of zero
\* bytes, an image whose read fails, and a file the filter rejects.
FileKinds == {"image", "emptyImage", "unreadable", "invalid"}

VARIABLES
    hasKey,          \* useState hasKey
    isCheckingKey,   \* useState isCheckingKey
    history,         \* useState history: sequence of HistoryItem
    processingId,    \* useState processingId (NoId for null)
    error,           \* useState error ("none" for null)
    isQueueRunning,  \* useState isQueueRunning
    settings,        \* the ten studio-settings useState cells
    ratings,         \* localStorage[RATINGS_STORAGE_KEY], parsed
    uploads,         \* processUploadedFiles calls awaiting their file reads
    tasks,           \* processQueueItem calls that have not returned
    nextId,          \* source of fresh item ids
    budget           \* uploads, setting changes and ratings still to explore

vars == <<hasKey, isCheckingKey, history, processingId, error, isQueueRunning,
          settings, ratings, uploads, tasks, nextId, budget>>

\* ------------------------------------------------------------ helpers
Ids(h) == {h[k].id : k \in 1..Len(h)}

\* history.find(i => i.id === id); only used where the id is present
ItemOf(h, id) == h[CHOOSE k \in 1..Len(h) : h[k].id = id /\ \A m \in 1..(k-1) : h[m].id # id]

\* history.filter(i => i.status === 'queued' || i.status === 'generating').length
ActiveCount(h) == Cardinality({k \in 1..Len(h) : h[k].status \in {"queued", "generating"}})

\* history.filter(i => i.status === 'queued').length
QueueCount(h) == Cardinality({k \in 1..Len(h) : h[k].status = "queued"})

\* The configuration captured into an item from the settings state.
CaptureSettings(s) ==
    [materialType |-> s.materialType,
     textureIntensity |-> s.textureIntensity,
     patinaIntensity |-> IF s.isPatinaEnabled THEN s.patinaIntensity ELSE 0,
     patinaVariation |-> s.patinaVariation,
     shadowAngle |-> s.shadowAngle,
     shadowIntensity |-> s.shadowIntensity,
     backgroundDistance |-> s.backgroundDistance,
     aspectRatio |-> s.aspectRatio,
     enhancedLighting |-> s.enhancedLighting]

DefaultSettings ==
    [materialType |-> "standard", textureIntensity |-> 50, patinaIntensity |-> 0,
     isPatinaEnabled |-> FALSE, patinaVariation |-> "standard", shadowAngle |-> 135,
     shadowIntensity |-> "soft", backgroundDistance |-> 0, aspectRatio |-> "1:1",
     enhancedLighting |-> TRUE]

\* The budgets a behaviour starts with.
Budgets ==
    { [jobs |-> MaxJobs, settings |-> 0, ratings |-> 0],
      [jobs |-> 1, settings |-> MaxSettingChanges, ratings |-> 0],
      [jobs |-> RatedJobs, settings |-> 0, ratings |-> MaxRatings],
      [jobs |-> 1, settings |-> 1, ratings |-> MaxRatings] }

Init ==
    /\ hasKey = FALSE
    /\ isCheckingKey = TRUE
    /\ history = <<>>
    /\ processingId = NoId
    /\ error = "none"
    /\ isQueueRunning = FALSE
    /\ settings = DefaultSettings
    /\ ratings = <<>>
    /\ uploads = <<>>
    /\ tasks = {}
    /\ nextId = 1
    /\ budget \in Budgets

\* ------------------------------------------------- preference profile
\* A faulty variant of PositiveExamples: every record counts.
PositiveExamplesUnfiltered(log) == log

\* positiveExamples = ratings.filter(r => r.rating >= 4)
PositiveExamples(log) == SelectSeq(log, LAMBDA r : r.rating >= HIGH_RATING)

\* counts[val] right after the loop of getMode has counted arr[k]
CountUpTo(arr, k) == Cardinality({j \in 1..k : arr[j] = arr[k]})

\* A faulty variant of ModeLoop: a value that equals the running maximum takes over.
RECURSIVE ModeLoopTakingOver(_, _, _, _)
ModeLoopTakingOver(arr, k, maxCount, mode) ==
    IF k > Len(arr) THEN mode
    ELSE IF CountUpTo(arr, k) >= maxCount
         THEN ModeLoopTakingOver(arr, k + 1, CountUpTo(arr, k), arr[k])
         ELSE ModeLoopTakingOver(arr, k + 1, maxCount, mode)

RECURSIVE ModeLoop(_, _, _, _)
\* the for-loop of getMode from position k on
ModeLoop(arr, k, maxCount, mode) ==
    IF k > Len(arr) THEN mode
    ELSE IF CountUpTo(arr, k) > maxCount
         THEN ModeLoop(arr, k + 1, CountUpTo(arr, k), arr[k])
         ELSE ModeLoop(arr, k + 1, maxCount, mode)

\* getMode(arr); it is only called with a non-empty array
getMode(arr) == ModeLoop(arr, 1, 0, arr[1])

\* Math.round(x / 45) * 45 for a whole number x >= 0
RoundTo45(x) == ((2 * x + 45) \div 90) * 45

\* Math.round((r.shadowAngle || 135) / 45) * 45
AngleBucket(a) == RoundTo45(NumOr(a, 135))

\* arr.map(f)
MapSeq(arr, F(_)) == [k \in 1..Len(arr) |-> F(arr[k])]

\* arr.filter(p).length
CountIf(arr, P(_)) == Cardinality({k \in 1..Len(arr) : P(arr[k])})

\* The empty string returned when there is no high-rated record.
EmptyProfile ==
    [samples |-> 0, preferredShadow |-> "", preferredMaterial |-> "",
     preferredAngle |-> 0, likesEnhanced |-> FALSE, prefersFloating |-> FALSE]

\* getAiMemoryContext() on the parsed rating log: the values interpolated
\* into the returned text.
getAiMemoryContext(log) ==
    LET positiveExamples == PositiveExamples(log) IN
    IF Len(positiveExamples) = 0 THEN EmptyProfile
    ELSE [samples |-> Len(positiveExamples),
          preferredShadow |->
              getMode(MapSeq(positiveExamples, LAMBDA r : r.cfg.shadowIntensity)),
          preferredMaterial |->
              getMode(MapSeq(positiveExamples, LAMBDA r : r.cfg.materialType)),
          preferredAngle |->
              getMode(MapSeq(positiveExamples, LAMBDA r : AngleBucket(r.cfg.shadowAngle))),
          likesEnhanced |->
              2 * CountIf(positiveExamples, LAMBDA r : r.cfg.enhancedLighting)
                  > Len(positiveExamples),
          prefersFloating |->
              2 * CountIf(positiveExamples, LAMBDA r : NumOr(r.cfg.backgroundDistance, 0) > 10)
                  > Len(positiveExamples)]

\* ---------------------------------------------------- queue controller
HasQueued(h) == \E k \in 1..Len(h) : h[k].status = "queued"

\* A faulty variant of FirstQueued: the last queued item of the store.
LastQueued(h) ==
    h[CHOOSE k \in 1..Len(h) :
        h[k].status = "queued" /\ \A m \in (k + 1)..Len(h) : h[m].status # "queued"]

\* history.find(item => item.status === 'queued')
FirstQueued(h) ==
    h[CHOOSE k \in 1..Len(h) :
        h[k].status = "queued" /\ \A m \in 1..(k - 1) : h[m].status # "queued"]

\* A faulty variant of MarkGenerating: the write lands on every queued item.
MarkGeneratingAllQueued(h, id) ==
    [k \in 1..Len(h) |->
        IF h[k].id = id \/ h[k].status = "queued"
        THEN [h[k] EXCEPT !.status = "generating"]
        ELSE h[k]]

\* prev.map(i => i.id === id ? { ...i, status: 'generating' } : i)
MarkGenerating(h, id) ==
    [k \in 1..Len(h) |->
        IF h[k].id = id THEN [h[k] EXCEPT !.status = "generating"] ELSE h[k]]

\* A faulty variant of MarkCompleted: a result for an id that is not in the
\* store lands on the first item.
MarkCompletedOrFirst(h, id, uri) ==
    [k \in 1..Len(h) |->
        IF h[k].id = id \/ (k = 1 /\ \A m \in 1..Len(h) : h[m].id # id)
        THEN [h[k] EXCEPT !.generatedImage = uri, !.status = "completed",
                          !.base64Data = Undefined]
        ELSE h[k]]

\* A faulty variant of MarkCompleted: the result is stored but the status is
\* left as it is.
MarkCompletedKeepingStatus(h, id, uri) ==
    [k \in 1..Len(h) |->
        IF h[k].id = id
        THEN [h[k] EXCEPT !.generatedImage = uri, !.base64Data = Undefined]
        ELSE h[k]]

\* prev.map(i => i.id === id
\*   ? { ...i, generatedImage: uri, status: 'completed', base64Data: undefined } : i)
MarkCompleted(h, id, uri) ==
    [k \in 1..Len(h) |->
        IF h[k].id = id
        THEN [h[k] EXCEPT !.generatedImage = uri, !.status = "completed",
                          !.base64Data = Undefined]
        ELSE h[k]]

\* A faulty variant of MarkFailed: the bytes are kept.
MarkFailedKeepingBytes(h, id) ==
    [k \in 1..Len(h) |->
        IF h[k].id = id THEN [h[k] EXCEPT !.status = "failed"] ELSE h[k]]

\* prev.map(i => i.id === id ? { ...i, status: 'failed', base64Data: undefined } : i)
MarkFailed(h, id) ==
    [k \in 1..Len(h) |->
        IF h[k].id = id
        THEN [h[k] EXCEPT !.status = "failed", !.base64Data = Undefined]
        ELSE h[k]]

\* A faulty variant of MissingInput: the input is never looked at.
MissingInputUnchecked(item) == FALSE

\* !item.base64Data || !item.mimeType
MissingInput(item) == ~Truthy(item.base64Data) \/ ~Truthy(item.mimeType)

\* A faulty variant of ScanEnabled: a scan that does not look at the run flag.
ScanEnabledIgnoringRun(run, pid) == pid = NoId

\* A faulty variant of ScanEnabled: a scan that does not look at the marker.
ScanEnabledIgnoringMarker(run, pid) == run

\* The scan guard: the effect returns early unless the queue runs and the
\* in-flight marker is empty.
ScanEnabled(run, pid) == run /\ pid = NoId

\* A faulty variant of NewTask: the call is made at once, without the delay.
NewTaskWithoutThrottle(item) ==
    [item |-> item, pc |-> "call", timer |-> 0, request |-> <<>>, sent |-> <<>>]

\* A processQueueItem call suspended at its throttle delay.
NewTask(item) ==
    [item |-> item, pc |-> "throttle", timer |-> THROTTLE_MS, request |-> <<>>,
     sent |-> <<>>]

RECURSIVE ScanWithoutIdleExit(_, _, _, _)
\* A faulty variant of Scan: with nothing queued the run flag is left alone.
ScanWithoutIdleExit(h, pid, run, tks) ==
    IF ~ScanEnabled(run, pid)
    THEN [history |-> h, processingId |-> pid, isQueueRunning |-> run, tasks |-> tks]
    ELSE IF ~HasQueued(h)
    THEN [history |-> h, processingId |-> pid, isQueueRunning |-> run, tasks |-> tks]
    ELSE LET nextItem == FirstQueued(h) IN
         IF MissingInput(nextItem)
         THEN ScanWithoutIdleExit(MarkFailed(MarkGenerating(h, nextItem.id), nextItem.id),
                                  NoId, run, tks)
         ELSE [history |-> MarkGenerating(h, nextItem.id),
               processingId |-> nextItem.id,
               isQueueRunning |-> run,
               tasks |-> tks \cup {NewTask(nextItem)}]

RECURSIVE Scan(_, _, _, _)
\* The queue-scan effect, run until it has nothing more to do.  A selected
\* item without input fails inside the same commit (the throw comes before
\* the first await), which changes history and so runs the effect again.
Scan(h, pid, run, tks) ==
    IF ~ScanEnabled(run, pid)
    THEN [history |-> h, processingId |-> pid, isQueueRunning |-> run, tasks |-> tks]
    ELSE IF ~HasQueued(h)
    THEN [history |-> h, processingId |-> pid, isQueueRunning |-> FALSE, tasks |-> tks]
    ELSE LET nextItem == FirstQueued(h) IN
         IF MissingInput(nextItem)
         THEN Scan(MarkFailed(MarkGenerating(h, nextItem.id), nextItem.id), NoId, run, tks)
         ELSE [history |-> MarkGenerating(h, nextItem.id),
               processingId |-> nextItem.id,
               isQueueRunning |-> run,
               tasks |-> tks \cup {NewTask(nextItem)}]

\* Commit the four cells the scan reads and writes, after the effect ran.
Commit(h, pid, run, tks) ==
    LET s == Scan(h, pid, run, tks) IN
    /\ history' = s.history
    /\ processingId' = s.processingId
    /\ isQueueRunning' = s.isQueueRunning
    /\ tasks' = s.tasks

\* A faulty variant of RequestOf: the request is built from the settings state.
RequestOfSettings(item, memoryContext) ==
    [base64Image |-> item.base64Data,
     mimeType |-> item.mimeType,
     materialType |-> StrOr(settings.materialType, "standard"),
     shadowAngle |-> settings.shadowAngle,
     shadowIntensity |-> settings.shadowIntensity,
     backgroundDistance |-> settings.backgroundDistance,
     aspectRatio |-> StrOr(settings.aspectRatio, "1:1"),
     enhancedLighting |-> settings.enhancedLighting,
     textureIntensity |-> NumOr(settings.textureIntensity, 50),
     patinaIntensity |-> NumOr(settings.patinaIntensity, 0),
     patinaVariation |-> StrOr(settings.patinaVariation, "standard"),
     memoryContext |-> memoryContext]

\* generateProPhoto's arguments as processQueueItem passes them.
RequestOf(item, memoryContext) ==
    [base64Image |-> item.base64Data,
     mimeType |-> item.mimeType,
     materialType |-> StrOr(item.cfg.materialType, "standard"),
     shadowAngle |-> item.cfg.shadowAngle,
     shadowIntensity |-> item.cfg.shadowIntensity,
     backgroundDistance |-> item.cfg.backgroundDistance,
     aspectRatio |-> StrOr(item.cfg.aspectRatio, "1:1"),
     enhancedLighting |-> item.cfg.enhancedLighting,
     textureIntensity |-> NumOr(item.cfg.textureIntensity, 50),
     patinaIntensity |-> NumOr(item.cfg.patinaIntensity, 0),
     patinaVariation |-> StrOr(item.cfg.patinaVariation, "standard"),
     memoryContext |-> memoryContext]

\* ------------------------------------------------------------ compile
\* The prompt is modelled by the parts of its text that vary with the
\* arguments: each template is a record of the values it interpolates and of
\* the branch that chose its fixed sentences.

\* const depth = intensity < 30 ? ... : intensity < 70 ? ... : ...  (also the
\* if / else-if chain of the texture case)
IntensityBand(v) == IF v < 30 THEN "low" ELSE IF v < 70 THEN "medium" ELSE "high"

\* The three if-statements on patinaVariation: the text stays empty for any
\* other value.
VariationText(patinaVariation) ==
    IF patinaVariation \in PatinaVariations THEN patinaVariation ELSE EmptyString

\* A faulty variant of getShadowInstructions: the light-source angle is not
\* reduced modulo 360.
getShadowInstructionsWithoutWrap(angle, intensity, distance, enhancedLighting) ==
    [lightSourceAngle |-> angle + 180,
     castShadowAngle |-> angle,
     shadowPhysics |-> [physics |-> IF enhancedLighting THEN "physics" ELSE "legacy",
                        intensity |-> intensity,
                        distanceEffect |-> distance > 0],
     spatialInstruction |-> IF distance <= 5
                            THEN [status |-> "GROUNDED", distance |-> 0]
                            ELSE [status |-> IF distance < 30 THEN "HOVERING" ELSE "FLOATING",
                                  distance |-> distance],
     lightingEngine |-> IF enhancedLighting THEN "advanced" ELSE "standard"]

\* getShadowInstructions(angle, intensity, distance, enhancedLighting)
getShadowInstructions(angle, intensity, distance, enhancedLighting) ==
    [lightSourceAngle |-> (angle + 180) % 360,
     castShadowAngle |-> angle,
     shadowPhysics |-> [physics |-> IF enhancedLighting THEN "physics" ELSE "legacy",
                        intensity |-> intensity,
                        distanceEffect |-> distance > 0],
     spatialInstruction |-> IF distance <= 5
                            THEN [status |-> "GROUNDED", distance |-> 0]
                            ELSE [status |-> IF distance < 30 THEN "HOVERING" ELSE "FLOATING",
                                  distance |-> distance],
     lightingEngine |-> IF enhancedLighting THEN "advanced" ELSE "standard"]

\* getMaterialInstructions(type, textureIntensity, patinaIntensity,
\* patinaVariation): the pipeline, the branch of its engine, and the numbers
\* and variation text it prints (0 and "" where it prints none).
getMaterialInstructions(type, textureIntensity, patinaIntensity, patinaVariation) ==
    IF type \in {"ammonia", "patina"}
    THEN [pipeline |-> type, engine |-> "coverage", printed |-> patinaIntensity,
          variation |-> VariationText(patinaVariation)]
    ELSE IF type \in {"metal", "silver"}
    THEN IF patinaIntensity > 0
         THEN [pipeline |-> type, engine |-> IntensityBand(patinaIntensity),
               printed |-> patinaIntensity, variation |-> VariationText(patinaVariation)]
         ELSE [pipeline |-> type, engine |-> "none", printed |-> 0,
               variation |-> EmptyString]
    ELSE IF type = "stone"
    THEN [pipeline |-> type, engine |-> "none", printed |-> 0, variation |-> EmptyString]
    ELSE IF type = "texture"
    THEN [pipeline |-> type, engine |-> IntensityBand(textureIntensity),
          printed |-> textureIntensity, variation |-> EmptyString]
    ELSE [pipeline |-> "standard", engine |-> "none", printed |-> 0,
          variation |-> EmptyString]

\* A faulty variant of getSystemPrompt: the learning section is read from the
\* rating log at hand instead of the argument.
getSystemPromptReadingLog(req) ==
    [learning |-> IF getAiMemoryContext(ratings) = EmptyProfile
                  THEN "none" ELSE "profile",
     memoryContext |-> getAiMemoryContext(ratings),
     lighting |-> getShadowInstructions(req.shadowAngle, req.shadowIntensity,
                                        req.backgroundDistance, req.enhancedLighting),
     material |-> getMaterialInstructions(req.materialType, req.textureIntensity,
                                          req.patinaIntensity, req.patinaVariation)]

\* A faulty variant of getSystemPrompt: a non-empty profile replaces the
\* job's shadow angle and shadow intensity in the lighting section.
getSystemPromptProfileFirst(req) ==
    [learning |-> IF req.memoryContext = EmptyProfile THEN "none" ELSE "profile",
     memoryContext |-> req.memoryContext,
     lighting |-> IF req.memoryContext = EmptyProfile
                  THEN getShadowInstructions(req.shadowAngle, req.shadowIntensity,
                                             req.backgroundDistance, req.enhancedLighting)
                  ELSE getShadowInstructions(req.memoryContext.preferredAngle,
                                             req.memoryContext.preferredShadow,
                                             req.backgroundDistance, req.enhancedLighting),
     material |-> getMaterialInstructions(req.materialType, req.textureIntensity,
                                          req.patinaIntensity, req.patinaVariation)]

\* getSystemPrompt(...), given generateProPhoto's arguments req: the learning
\* section (memoryContext, or the fixed sentence when it is empty), the
\* lighting section and the material section.
getSystemPrompt(req) ==
    [learning |-> IF req.memoryContext = EmptyProfile THEN "none" ELSE "profile",
     memoryContext |-> req.memoryContext,
     lighting |-> getShadowInstructions(req.shadowAngle, req.shadowIntensity,
                                        req.backgroundDistance, req.enhancedLighting),
     material |-> getMaterialInstructions(req.materialType, req.textureIntensity,
                                          req.patinaIntensity, req.patinaVariation)]

\* The argument of ai.models.generateContent built by generateProPhoto.
generateContentRequest(req) ==
    [text |-> getSystemPrompt(req),
     inlineData |-> [data |-> req.base64Image, mimeType |-> req.mimeType],
     imageConfig |-> [imageSize |-> "2K", aspectRatio |-> req.aspectRatio]]

\* await delay(1000) is over: build the memory context and call
\* generateProPhoto, which compiles the request and suspends the task again.
ThrottleElapsed(t) ==
    /\ t \in tasks
    /\ t.pc = "throttle"
    /\ tasks' = (tasks \ {t}) \cup
          {LET req == RequestOf(t.item, getAiMemoryContext(ratings)) IN
           [t EXCEPT !.pc = "call", !.timer = 0,
                     !.request = <<req>>,
                     !.sent = <<generateContentRequest(req)>>]}
    /\ UNCHANGED <<hasKey, isCheckingKey, history, processingId, error, isQueueRunning,
                   settings, ratings, uploads, nextId, budget>>

\* A faulty variant of GenerateSucceeds: the result is stored and the marker
\* released, but the scan does not run again.
GenerateSucceedsWithoutScan(t) ==
    /\ t \in tasks
    /\ t.pc = "call"
    /\ history' = MarkCompleted(history, t.item.id, "data:result")
    /\ processingId' = NoId
    /\ tasks' = tasks \ {t}
    /\ UNCHANGED <<hasKey, isCheckingKey, error, isQueueRunning, settings, ratings,
                   uploads, nextId, budget>>

\* generateProPhoto resolved: lines 176-182, then the finally block.
GenerateSucceeds(t) ==
    /\ t \in tasks
    /\ t.pc = "call"
    /\ Commit(MarkCompleted(history, t.item.id, "data:result"), NoId, isQueueRunning,
              tasks \ {t})
    /\ UNCHANGED <<hasKey, isCheckingKey, error, settings, ratings, uploads, nextId,
                   budget>>

\* err.message?.includes("429") || err.message?.includes("quota") || err.status === 429
isRateLimit(err) == "429" \in err.message \/ "quota" \in err.message \/ err.status = 429

\* err.message && err.message.includes("Requested entity was not found")
isKeyExpired(err) == KeyExpiredText \in err.message

\* A faulty variant of GenerateFails: the credential branch leaves the run
\* flag as it is.
GenerateFailsKeepingRun(t, err) ==
    /\ t \in tasks
    /\ t.pc = "call"
    /\ IF isKeyExpired(err)
       THEN /\ hasKey' = FALSE
            /\ error' = "API Key session expired"
            /\ Commit(MarkFailed(history, t.item.id), NoId, isQueueRunning, tasks \ {t})
       ELSE IF isRateLimit(err)
       THEN /\ Commit(MarkFailed(history, t.item.id), processingId, isQueueRunning,
                      (tasks \ {t}) \cup {[t EXCEPT !.pc = "cooldown", !.timer = COOLDOWN_MS]})
            /\ UNCHANGED <<hasKey, error>>
       ELSE /\ Commit(MarkFailed(history, t.item.id), NoId, isQueueRunning, tasks \ {t})
            /\ UNCHANGED <<hasKey, error>>
    /\ UNCHANGED <<isCheckingKey, settings, ratings, uploads, nextId, budget>>

\* A faulty variant of GenerateFails: the rate-limit branch does not wait.
GenerateFailsWithoutCooldown(t, err) ==
    /\ t \in tasks
    /\ t.pc = "call"
    /\ IF isKeyExpired(err)
       THEN /\ hasKey' = FALSE
            /\ error' = "API Key session expired"
            /\ Commit(MarkFailed(history, t.item.id), NoId, FALSE, tasks \ {t})
       ELSE /\ Commit(MarkFailed(history, t.item.id), NoId, isQueueRunning, tasks \ {t})
            /\ UNCHANGED <<hasKey, error>>
    /\ UNCHANGED <<isCheckingKey, settings, ratings, uploads, nextId, budget>>

\* A faulty variant of GenerateFails: every failure pauses the queue.
GenerateFailsPausing(t, err) ==
    /\ t \in tasks
    /\ t.pc = "call"
    /\ IF isKeyExpired(err)
       THEN /\ hasKey' = FALSE
            /\ error' = "API Key session expired"
            /\ Commit(MarkFailed(history, t.item.id), NoId, FALSE, tasks \ {t})
       ELSE IF isRateLimit(err)
       THEN /\ Commit(MarkFailed(history, t.item.id), processingId, isQueueRunning,
                      (tasks \ {t}) \cup {[t EXCEPT !.pc = "cooldown", !.timer = COOLDOWN_MS]})
            /\ UNCHANGED <<hasKey, error>>
       ELSE /\ Commit(MarkFailed(history, t.item.id), NoId, FALSE, tasks \ {t})
            /\ UNCHANGED <<hasKey, error>>
    /\ UNCHANGED <<isCheckingKey, settings, ratings, uploads, nextId, budget>>

\* A faulty variant of GenerateFails: the credential branch returns without
\* releasing the marker.
GenerateFailsLeakingMarker(t, err) ==
    /\ t \in tasks
    /\ t.pc = "call"
    /\ IF isKeyExpired(err)
       THEN /\ hasKey' = FALSE
            /\ error' = "API Key session expired"
            /\ Commit(MarkFailed(history, t.item.id), processingId, FALSE, tasks \ {t})
       ELSE IF isRateLimit(err)
       THEN /\ Commit(MarkFailed(history, t.item.id), processingId, isQueueRunning,
                      (tasks \ {t}) \cup {[t EXCEPT !.pc = "cooldown", !.timer = COOLDOWN_MS]})
            /\ UNCHANGED <<hasKey, error>>
       ELSE /\ Commit(MarkFailed(history, t.item.id), NoId, isQueueRunning, tasks \ {t})
            /\ UNCHANGED <<hasKey, error>>
    /\ UNCHANGED <<isCheckingKey, settings, ratings, uploads, nextId, budget>>

\* generateProPhoto rejected with err: the catch block, lines 184-204, and
\* the finally block unless the rate-limit branch suspends the task first.
GenerateFails(t, err) ==
    /\ t \in tasks
    /\ t.pc = "call"
    /\ IF isKeyExpired(err)
       THEN /\ hasKey' = FALSE
            /\ error' = "API Key session expired"
            /\ Commit(MarkFailed(history, t.item.id), NoId, FALSE, tasks \ {t})
       ELSE IF isRateLimit(err)
       THEN /\ Commit(MarkFailed(history, t.item.id), processingId, isQueueRunning,
                      (tasks \ {t}) \cup {[t EXCEPT !.pc = "cooldown", !.timer = COOLDOWN_MS]})
            /\ UNCHANGED <<hasKey, error>>
       ELSE /\ Commit(MarkFailed(history, t.item.id), NoId, isQueueRunning, tasks \ {t})
            /\ UNCHANGED <<hasKey, error>>
    /\ UNCHANGED <<isCheckingKey, settings, ratings, uploads, nextId, budget>>

\* A faulty variant of CooldownElapsed: the marker is not released.
CooldownElapsedHoldingMarker(t) ==
    /\ t \in tasks
    /\ t.pc = "cooldown"
    /\ Commit(history, processingId, isQueueRunning, tasks \ {t})
    /\ UNCHANGED <<hasKey, isCheckingKey, error, settings, ratings, uploads, nextId,
                   budget>>

\* A faulty variant of CooldownElapsed: the job is queued again after the
\* cooldown.
CooldownElapsedRetrying(t) ==
    /\ t \in tasks
    /\ t.pc = "cooldown"
    /\ Commit([k \in 1..Len(history) |->
                  IF history[k].id = t.item.id
                  THEN [history[k] EXCEPT !.status = "queued",
                                          !.base64Data = t.item.base64Data]
                  ELSE history[k]],
              NoId, isQueueRunning, tasks \ {t})
    /\ UNCHANGED <<hasKey, isCheckingKey, error, settings, ratings, uploads, nextId,
                   budget>>

\* await delay(10000) is over: the finally block releases the marker.
CooldownElapsed(t) ==
    /\ t \in tasks
    /\ t.pc = "cooldown"
    /\ Commit(history, NoId, isQueueRunning, tasks \ {t})
    /\ UNCHANGED <<hasKey, isCheckingKey, error, settings, ratings, uploads, nextId,
                   budget>>

\* ------------------------------------------------------------ API key
\* checkKey resolved with the answer of window.aistudio.hasSelectedApiKey()
\* (or without window.aistudio, which sets hasKey to false as well).
CheckKey(selected) ==
    /\ isCheckingKey
    /\ hasKey' = selected
    /\ isCheckingKey' = FALSE
    /\ UNCHANGED <<history, processingId, error, isQueueRunning, settings, ratings,
                   uploads, tasks, nextId, budget>>

\* handleSelectKey: openSelectKey() resolved (ok) or rejected.
handleSelectKey(ok) ==
    /\ ~isCheckingKey
    /\ IF ok THEN hasKey' = TRUE /\ error' = error
             ELSE hasKey' = hasKey /\ error' = "Failed to select API key"
    /\ UNCHANGED <<isCheckingKey, history, processingId, isQueueRunning, settings,
                   ratings, uploads, tasks, nextId, budget>>

\* -------------------------------------------------------------- upload
\* fileToDataUri(file): "data:<type>;base64,<bytes>"
fileToDataUri(kind) ==
    [mime |-> ImageMime, data |-> IF kind = "emptyImage" THEN EmptyString ELSE Bytes]

\* uri.split(',')[1]
DataPart(uri) == uri.data

\* meta.match(/:(.*?);/), with the default 'image/png' when nothing matches
MimePart(uri) == IF uri.mime = Undefined THEN "image/png" ELSE uri.mime

\* fileToBase64(file)
fileToBase64(kind) == DataPart(fileToDataUri(kind))

\* The filter of lines 226-230.
ValidFiles(files) == SelectSeq(files, LAMBDA f : f # "invalid")

\* A faulty variant of OverCapacity: the comparison off by the batch size.
OverCapacityIgnoringBatch(h, n) == ActiveCount(h) > MAX_QUEUE_SIZE

\* currentActiveCount + validFiles.length > MAX_QUEUE_SIZE
OverCapacity(h, n) == ActiveCount(h) + n > MAX_QUEUE_SIZE

\* processUploadedFiles up to its first await (lines 223-245).
UploadBegin(files) ==
    /\ ~isCheckingKey
    /\ IF Len(ValidFiles(files)) = 0
       THEN error' = "No valid images selected" /\ uploads' = uploads
       ELSE IF OverCapacity(history, Len(ValidFiles(files)))
       THEN error' = "Queue limit reached" /\ uploads' = uploads
       ELSE /\ error' = "none"
            /\ uploads' = Append(uploads, [files |-> ValidFiles(files),
                                           cfg |-> CaptureSettings(settings)])
    /\ Len(ValidFiles(files)) <= budget.jobs
    /\ budget' = IF uploads' = uploads THEN budget
                 ELSE [budget EXCEPT !.jobs = @ - Len(ValidFiles(files))]
    /\ UNCHANGED <<hasKey, isCheckingKey, history, processingId, isQueueRunning, settings,
                   ratings, tasks, nextId>>

\* The item pushed for one file that was read (lines 250-269).
NewItem(id, kind, cfg) ==
    [id |-> id,
     originalImage |-> fileToDataUri(kind),
     generatedImage |-> EmptyString,
     status |-> "queued",
     base64Data |-> fileToBase64(kind),
     mimeType |-> ImageMime,
     cfg |-> cfg,
     rating |-> 0]

RECURSIVE NewItems(_, _, _)
\* newItems: one item per file whose read succeeded, ids in push order.
NewItems(files, cfg, id) ==
    IF files = <<>> THEN <<>>
    ELSE IF Head(files) = "unreadable" THEN NewItems(Tail(files), cfg, id)
    ELSE <<NewItem(id, Head(files), cfg)>> \o NewItems(Tail(files), cfg, id + 1)

\* seq without its k-th element
RemoveAt(seq, k) == SubSeq(seq, 1, k - 1) \o SubSeq(seq, k + 1, Len(seq))

\* A faulty variant of UploadFinish: the new items are put behind the store.
UploadFinishAppending(k) ==
    /\ k \in 1..Len(uploads)
    /\ LET newItems == NewItems(uploads[k].files, uploads[k].cfg, nextId) IN
       /\ Commit(history \o newItems, processingId, isQueueRunning, tasks)
       /\ nextId' = nextId + Len(newItems)
    /\ uploads' = RemoveAt(uploads, k)
    /\ UNCHANGED <<hasKey, isCheckingKey, error, settings, ratings, budget>>

\* Promise.all settled for the k-th pending upload: line 275.
UploadFinish(k) ==
    /\ k \in 1..Len(uploads)
    /\ LET newItems == NewItems(uploads[k].files, uploads[k].cfg, nextId) IN
       /\ Commit(newItems \o history, processingId, isQueueRunning, tasks)
       /\ nextId' = nextId + Len(newItems)
    /\ uploads' = RemoveAt(uploads, k)
    /\ UNCHANGED <<hasKey, isCheckingKey, error, settings, ratings, budget>>

\* triggerFileInput: a click on the drop zone with the queue full.
triggerFileInput ==
    /\ ~isCheckingKey
    /\ ActiveCount(history) >= MAX_QUEUE_SIZE
    /\ error' = "Queue is full."
    /\ UNCHANGED <<hasKey, isCheckingKey, history, processingId, isQueueRunning, settings,
                   ratings, uploads, tasks, nextId, budget>>

\* ------------------------------------------------------ queue controls
\* START GENERATION, rendered while items are queued and the queue is paused.
StartQueue ==
    /\ ~isCheckingKey
    /\ QueueCount(history) > 0
    /\ ~isQueueRunning
    /\ Commit(history, processingId, TRUE, tasks)
    /\ UNCHANGED <<hasKey, isCheckingKey, error, settings, ratings, uploads, nextId,
                   budget>>

\* A faulty variant of PauseQueue: pausing drops the call in flight.
PauseQueueAborting ==
    /\ ~isCheckingKey
    /\ isQueueRunning
    /\ Commit(history, NoId, FALSE, {})
    /\ UNCHANGED <<hasKey, isCheckingKey, error, settings, ratings, uploads, nextId,
                   budget>>

\* A faulty variant of PauseQueue: the job in flight is put back in the queue.
PauseQueueRequeueing ==
    /\ ~isCheckingKey
    /\ isQueueRunning
    /\ Commit([k \in 1..Len(history) |->
                  IF history[k].status = "generating"
                  THEN [history[k] EXCEPT !.status = "queued"]
                  ELSE history[k]],
              processingId, FALSE, tasks)
    /\ UNCHANGED <<hasKey, isCheckingKey, error, settings, ratings, uploads, nextId,
                   budget>>

\* PAUSE, rendered while the queue runs.
PauseQueue ==
    /\ ~isCheckingKey
    /\ isQueueRunning
    /\ Commit(history, processingId, FALSE, tasks)
    /\ UNCHANGED <<hasKey, isCheckingKey, error, settings, ratings, uploads, nextId,
                   budget>>

\* A faulty variant of handleClearHistory: the run flag is left as it is.
handleClearHistoryKeepingRun ==
    /\ ~isCheckingKey
    /\ Len(history) > 0
    /\ Commit(<<>>, processingId, isQueueRunning, tasks)
    /\ UNCHANGED <<hasKey, isCheckingKey, error, settings, ratings, uploads, nextId,
                   budget>>

\* A faulty variant of handleClearHistory: the rating log is emptied as well.
handleClearHistoryWithRatings ==
    /\ ~isCheckingKey
    /\ Len(history) > 0
    /\ ratings' = <<>>
    /\ Commit(<<>>, processingId, FALSE, tasks)
    /\ UNCHANGED <<hasKey, isCheckingKey, error, settings, uploads, nextId, budget>>

\* A faulty variant of handleClearHistory: the marker is reset with the store.
handleClearHistoryFreeingMarker ==
    /\ ~isCheckingKey
    /\ Len(history) > 0
    /\ Commit(<<>>, NoId, FALSE, tasks)
    /\ UNCHANGED <<hasKey, isCheckingKey, error, settings, ratings, uploads, nextId,
                   budget>>

\* handleClearHistory; the button exists while the gallery is not empty.
handleClearHistory ==
    /\ ~isCheckingKey
    /\ Len(history) > 0
    /\ Commit(<<>>, processingId, FALSE, tasks)
    /\ UNCHANGED <<hasKey, isCheckingKey, error, settings, ratings, uploads, nextId,
                   budget>>

\* A faulty variant of Regenerated: the previous result is kept.
RegeneratedKeepingResult(item, s) ==
    [item EXCEPT !.status = "queued",
                 !.base64Data = DataPart(item.originalImage),
                 !.mimeType = MimePart(item.originalImage),
                 !.cfg = CaptureSettings(s)]

\* A faulty variant of Regenerated: the item keeps the snapshot it was uploaded with.
RegeneratedKeepingSnapshot(item, s) ==
    [item EXCEPT !.status = "queued",
                 !.generatedImage = EmptyString,
                 !.base64Data = DataPart(item.originalImage),
                 !.mimeType = MimePart(item.originalImage)]

\* The item handleRegenerate returns for the item with the given id.
Regenerated(item, s) ==
    [item EXCEPT !.status = "queued",
                 !.generatedImage = EmptyString,
                 !.base64Data = DataPart(item.originalImage),
                 !.mimeType = MimePart(item.originalImage),
                 !.cfg = CaptureSettings(s)]

\* handleRegenerate(id); the button exists on failed and on completed cards.
handleRegenerate(id) ==
    /\ ~isCheckingKey
    /\ \E k \in 1..Len(history) :
          history[k].id = id /\ history[k].status \in {"failed", "completed"}
    /\ Commit([k \in 1..Len(history) |->
                  IF history[k].id # id THEN history[k]
                  ELSE Regenerated(history[k], settings)],
              processingId, isQueueRunning, tasks)
    /\ UNCHANGED <<hasKey, isCheckingKey, error, settings, ratings, uploads, nextId,
                   budget>>

\* A faulty variant of RatingRecord: the record holds the current settings.
RatingRecordOfSettings(item, rating) ==
    [id |-> item.id, rating |-> rating, cfg |-> CaptureSettings(settings)]

\* ------------------------------------------------------------- rating
\* The record handleRate stores for an item.
RatingRecord(item, rating) == [id |-> item.id, rating |-> rating, cfg |-> item.cfg]

\* ratingsArray.findIndex(r => r.id === id) >= 0
HasRecord(log, id) == \E k \in 1..Len(log) : log[k].id = id

\* ratingsArray.findIndex(r => r.id === id), for an id that has a record
RecordIndex(log, id) ==
    CHOOSE k \in 1..Len(log) : log[k].id = id /\ \A m \in 1..(k - 1) : log[m].id # id

\* A faulty variant of RecordRating: every rating is pushed as a new record.
RecordRatingAppending(log, rec) == Append(log, rec)

\* A faulty variant of RecordRating: a job that has a record keeps it.
RecordRatingKeepingFirst(log, rec) ==
    IF HasRecord(log, rec.id) THEN log ELSE Append(log, rec)

\* Lines 377-382: replace the record of the id or push a new one.
RecordRating(log, rec) ==
    IF HasRecord(log, rec.id)
    THEN [log EXCEPT ![RecordIndex(log, rec.id)] = rec]
    ELSE Append(log, rec)

\* An id that names no job of the store: no upload is ever given it.
AbsentId == MaxJobs + 1

\* handleRate(id, rating); the stars exist on completed cards.  The store is
\* mapped whatever the id is; without a job of that id the handler returns
\* before it touches the log (line 354).
handleRate(id, rating) ==
    /\ ~isCheckingKey
    /\ budget.ratings > 0
    /\ \A k \in 1..Len(history) : history[k].id = id => history[k].status = "completed"
    /\ Commit([k \in 1..Len(history) |->
                  IF history[k].id = id THEN [history[k] EXCEPT !.rating = rating]
                  ELSE history[k]],
              processingId, isQueueRunning, tasks)
    /\ ratings' = IF id \in Ids(history)
                  THEN RecordRating(ratings, RatingRecord(ItemOf(history, id), rating))
                  ELSE ratings
    /\ budget' = [budget EXCEPT !.ratings = @ - 1]
    /\ UNCHANGED <<hasKey, isCheckingKey, error, settings, uploads, nextId>>

\* ----------------------------------------------------------- settings
\* Guard and bookkeeping shared by the setting changes: none of them touches
\* the store, the rating log or the controller.
SettingChange ==
    /\ ~isCheckingKey
    /\ budget.settings > 0
    /\ budget' = [budget EXCEPT !.settings = @ - 1]
    /\ UNCHANGED <<hasKey, isCheckingKey, history, processingId, error, isQueueRunning,
                   ratings, uploads, tasks, nextId>>

\* setShadowAngle (slider and quick buttons)
SetShadowAngle(a) ==
    /\ a # settings.shadowAngle
    /\ settings' = [settings EXCEPT !.shadowAngle = a]
    /\ SettingChange

\* setShadowIntensity
SetShadowIntensity(v) ==
    /\ v # settings.shadowIntensity
    /\ settings' = [settings EXCEPT !.shadowIntensity = v]
    /\ SettingChange

\* setEnhancedLighting(!enhancedLighting)
ToggleEnhancedLighting ==
    /\ settings' = [settings EXCEPT !.enhancedLighting = ~settings.enhancedLighting]
    /\ SettingChange

\* setBackgroundDistance
SetBackgroundDistance(d) ==
    /\ d # settings.backgroundDistance
    /\ settings' = [settings EXCEPT !.backgroundDistance = d]
    /\ SettingChange

\* setAspectRatio
SetAspectRatio(r) ==
    /\ r # settings.aspectRatio
    /\ settings' = [settings EXCEPT !.aspectRatio = r]
    /\ SettingChange

\* The material buttons, lines 707-787.
SetMaterialType(m) ==
    /\ m # settings.materialType
    /\ settings' =
         IF m = "silver"
         THEN [settings EXCEPT !.materialType = m, !.isPatinaEnabled = FALSE]
         ELSE IF m = "patina"
         THEN [settings EXCEPT !.materialType = m, !.isPatinaEnabled = TRUE,
                               !.patinaIntensity = IF @ = 0 THEN 80 ELSE @]
         ELSE IF m = "ammonia"
         THEN [settings EXCEPT !.materialType = m, !.isPatinaEnabled = TRUE,
                               !.patinaIntensity = IF @ = 0 THEN 85 ELSE @]
         ELSE [settings EXCEPT !.materialType = m]
    /\ SettingChange

\* setTextureIntensity; the slider exists for the texture material.
SetTextureIntensity(v) ==
    /\ settings.materialType = "texture"
    /\ v # settings.textureIntensity
    /\ settings' = [settings EXCEPT !.textureIntensity = v]
    /\ SettingChange

\* The patina switch, lines 827-833; it exists for the metal family.
TogglePatina ==
    /\ settings.materialType \in MetalFamily
    /\ settings' =
         [settings EXCEPT !.isPatinaEnabled = ~settings.isPatinaEnabled,
                          !.patinaIntensity =
                              IF ~settings.isPatinaEnabled /\ @ = 0 THEN 50 ELSE @]
    /\ SettingChange

\* setPatinaIntensity; the slider exists while patina is enabled.
SetPatinaIntensity(v) ==
    /\ settings.materialType \in MetalFamily
    /\ settings.isPatinaEnabled
    /\ v # settings.patinaIntensity
    /\ settings' = [settings EXCEPT !.patinaIntensity = v]
    /\ SettingChange

\* setPatinaVariation; the buttons exist while patina is enabled.
SetPatinaVariation(v) ==
    /\ settings.materialType \in MetalFamily
    /\ settings.isPatinaEnabled
    /\ v # settings.patinaVariation
    /\ settings' = [settings EXCEPT !.patinaVariation = v]
    /\ SettingChange

\* A preset field that handleSavePreset left undefined.
Unset == -1

\* The presets found in localStorage[PRESETS_STORAGE_KEY] at startup.
StoredPresets ==
    { [materialType |-> "texture", textureIntensity |-> 0, patinaIntensity |-> Unset,
       patinaVariation |-> Undefined, isPatinaEnabled |-> Undefined],
      [materialType |-> "patina", textureIntensity |-> Unset, patinaIntensity |-> 50,
       patinaVariation |-> "extreme", isPatinaEnabled |-> "true"] }

\* handleLoadPreset(preset); the list shows the presets of the current material.
handleLoadPreset(preset) ==
    /\ preset.materialType = settings.materialType
    /\ settings' =
         [settings EXCEPT
            !.materialType = preset.materialType,
            !.textureIntensity =
                IF preset.textureIntensity # Unset THEN preset.textureIntensity ELSE @,
            !.patinaIntensity =
                IF preset.patinaIntensity # Unset THEN preset.patinaIntensity ELSE @,
            !.patinaVariation =
                IF preset.patinaVariation # Undefined THEN preset.patinaVariation ELSE @,
            !.isPatinaEnabled =
                IF preset.isPatinaEnabled # Undefined THEN preset.isPatinaEnabled = "true"
                ELSE @]
    /\ SettingChange

\* -------------------------------------------------------- specification
\* The non-empty file lists of at most MaxBatch files.
FileLists == UNION {[1..n -> FileKinds] : n \in 1..MaxBatch}

Next ==
    \/ \E selected \in BOOLEAN : CheckKey(selected)
    \/ \E ok \in BOOLEAN : handleSelectKey(ok)
    \/ \E files \in FileLists : UploadBegin(files)
    \/ \E k \in 1..Len(uploads) : UploadFinish(k)
    \/ triggerFileInput
    \/ StartQueue
    \/ PauseQueue
    \/ handleClearHistory
    \/ \E id \in Ids(history) : handleRegenerate(id)
    \/ \E id \in Ids(history) \cup {AbsentId}, r \in RatingSamples : handleRate(id, r)
    \/ \E t \in tasks : ThrottleElapsed(t)
    \/ \E t \in tasks : GenerateSucceeds(t)
    \/ \E t \in tasks, err \in ErrorSamples : GenerateFails(t, err)
    \/ \E t \in tasks : CooldownElapsed(t)
    \/ \E a \in AngleSamples : SetShadowAngle(a)
    \/ \E v \in IntensitySamples : SetShadowIntensity(v)
    \/ ToggleEnhancedLighting
    \/ \E d \in DistanceSamples : SetBackgroundDistance(d)
    \/ \E r \in AspectSamples : SetAspectRatio(r)
    \/ \E m \in MaterialSamples : SetMaterialType(m)
    \/ \E v \in TextureSamples : SetTextureIntensity(v)
    \/ TogglePatina
    \/ \E v \in PatinaSamples : SetPatinaIntensity(v)
    \/ \E v \in VariationSamples : SetPatinaVariation(v)
    \/ \E p \in StoredPresets : handleLoadPreset(p)

Spec == Init /\ [][Next]_vars

\* ------------------------------------- the profile on a stored rating log
\* The rating log left in localStorage by earlier sessions.  A stored record
\* is one of six: two shadow intensities, ratings on both sides of the
\* threshold, two settings of the other fields, and a shadow angle of 0.
StoredCfg(shadow, variant) ==
    IF variant = "A"
    THEN [CaptureSettings(DefaultSettings) EXCEPT !.shadowIntensity = shadow]
    ELSE IF variant = "C"
    THEN [CaptureSettings(DefaultSettings) EXCEPT
              !.shadowIntensity = shadow, !.shadowAngle = 0]
    ELSE [CaptureSettings(DefaultSettings) EXCEPT
              !.shadowIntensity = shadow, !.materialType = "metal",
              !.shadowAngle = 100, !.enhancedLighting = FALSE,
              !.backgroundDistance = 20]

StoredSamples ==
    { [rating |-> 4, cfg |-> StoredCfg("soft", "A")],
      [rating |-> 5, cfg |-> StoredCfg("soft", "B")],
      [rating |-> 5, cfg |-> StoredCfg("hard", "A")],
      [rating |-> 4, cfg |-> StoredCfg("hard", "B")],
      [rating |-> 3, cfg |-> StoredCfg("hard", "A")],
      [rating |-> 5, cfg |-> StoredCfg("soft", "C")] }

\* Ids of stored records are timestamps of earlier sessions: distinct from
\* each other and from the ids of this session.
StoredId(k) == 0 - k

StoredLogs ==
    UNION {{[k \in 1..n |-> [id |-> StoredId(k), rating |-> f[k].rating, cfg |-> f[k].cfg]] :
               f \in [1..n -> StoredSamples]} : n \in 0..MaxStoredLog}

\* The page loads with a stored rating log; one image is uploaded, the queue
\* is started and the call is made, which computes the profile.
InitProfile ==
    /\ hasKey = FALSE
    /\ isCheckingKey = TRUE
    /\ history = <<>>
    /\ processingId = NoId
    /\ error = "none"
    /\ isQueueRunning = FALSE
    /\ settings = DefaultSettings
    /\ ratings \in StoredLogs
    /\ uploads = <<>>
    /\ tasks = {}
    /\ nextId = 1
    /\ budget = [jobs |-> 1, settings |-> 0, ratings |-> 0]

NextProfile ==
    \/ \E selected \in BOOLEAN : CheckKey(selected)
    \/ UploadBegin(<<"image">>)
    \/ UploadFinish(1)
    \/ StartQueue
    \/ \E t \in tasks : ThrottleElapsed(t)
    \/ \E t \in tasks : GenerateSucceeds(t)

SpecProfile == InitProfile /\ [][NextProfile]_vars

\* ------------------------------------------- the queue left to run
\* The errors of a call that do not carry the credential-expiry text.
ErrorsWithKey == {err \in ErrorSamples : ~isKeyExpired(err)}

\* The user uploads, starts the queue and resubmits, but neither pauses nor
\* clears; no call fails on an expired credential.
InitLive ==
    /\ Init
    /\ budget = [jobs |-> MaxJobs, settings |-> 0, ratings |-> 0]

TimerFires == \E t \in tasks : ThrottleElapsed(t) \/ CooldownElapsed(t)

CallReturns ==
    \E t \in tasks :
        \/ GenerateSucceeds(t)
        \/ \E err \in ErrorsWithKey : GenerateFails(t, err)

NextLive ==
    \/ \E selected \in BOOLEAN : CheckKey(selected)
    \/ \E files \in FileLists : UploadBegin(files)
    \/ \E k \in 1..Len(uploads) : UploadFinish(k)
    \/ StartQueue
    \/ \E id \in Ids(history) : handleRegenerate(id)
    \/ TimerFires
    \/ CallReturns

\* setTimeout fires and the external call returns: both are weakly fair.
SpecLive ==
    InitLive /\ [][NextLive]_vars /\ WF_vars(TimerFires) /\ WF_vars(CallReturns)

\* -------------------------------------------- release of the marker
\* The external call returns, with a result or with any of the errors.
CallSettles ==
    \E t \in tasks :
        \/ GenerateSucceeds(t)
        \/ \E err \in ErrorSamples : GenerateFails(t, err)

NextRelease ==
    \/ \E selected \in BOOLEAN : CheckKey(selected)
    \/ \E files \in FileLists : UploadBegin(files)
    \/ \E k \in 1..Len(uploads) : UploadFinish(k)
    \/ StartQueue
    \/ PauseQueue
    \/ handleClearHistory
    \/ \E id \in Ids(history) : handleRegenerate(id)
    \/ TimerFires
    \/ CallSettles

\* The user may pause and clear at any time; a timer that was set fires.
SpecRelease == InitLive /\ [][NextRelease]_vars /\ WF_vars(TimerFires)

\* ------------------------------------------ the compile on slider ranges
\* The whole range of the shadow angle slider and of the distance slider.
SliderAngles == 0..360
SliderDistances == 0..100

\* The settings on the panel when the image is submitted: every shadow
\* angle; every distance under each of the six intensity and lighting
\* branches; every material with every aspect ratio, patina switched off
\* and switched on.
PanelSettings ==
    {[DefaultSettings EXCEPT !.shadowAngle = a] : a \in SliderAngles}
    \cup {[DefaultSettings EXCEPT !.backgroundDistance = d, !.shadowIntensity = i,
                                  !.enhancedLighting = e] :
             d \in SliderDistances, i \in ShadowIntensities, e \in BOOLEAN}
    \cup {[DefaultSettings EXCEPT !.materialType = m, !.aspectRatio = r,
                                  !.isPatinaEnabled = p, !.patinaIntensity = 50] :
             m \in MaterialTypes, r \in AspectRatios, p \in BOOLEAN}

\* The rating logs the compile is run with: none, one high-rated record,
\* and two of them with other settings.
PanelLogs ==
    {log \in StoredLogs :
        /\ Len(log) <= 2
        /\ \A k \in 1..Len(log) : log[k].rating = 5
        /\ Len(log) = 2 => log[1].cfg # log[2].cfg /\ log[1].cfg.shadowAngle = 0}

\* The page loads with the panel set and a stored rating log; one image is
\* uploaded, the queue is started and the call is made, which compiles the
\* request.
InitCompile ==
    /\ hasKey = FALSE
    /\ isCheckingKey = TRUE
    /\ history = <<>>
    /\ processingId = NoId
    /\ error = "none"
    /\ isQueueRunning = FALSE
    /\ settings \in PanelSettings
    /\ ratings \in PanelLogs
    /\ uploads = <<>>
    /\ tasks = {}
    /\ nextId = 1
    /\ budget = [jobs |-> 1, settings |-> 0, ratings |-> 0]

NextCompile ==
    \/ CheckKey(TRUE)
    \/ UploadBegin(<<"image">>)
    \/ UploadFinish(1)
    \/ StartQueue
    \/ \E t \in tasks : ThrottleElapsed(t)
    \/ \E t \in tasks : GenerateSucceeds(t)

SpecCompile == InitCompile /\ [][NextCompile]_vars

\* ---------------------------------------------------------------- C1
Generating(h) == {k \in 1..Len(h) : h[k].status = "generating"}

\* C1: in every reachable state at most one job of the store has status
\* generating.
C1_SingleFlight == Cardinality(Generating(history)) <= 1

\* A job is generating while another one waits in a running queue.
C1_Witness ==
    /\ isQueueRunning
    /\ Cardinality(Generating(history)) = 1
    /\ QueueCount(history) >= 1

\* ---------------------------------------------------------------- C2
\* C2 (as claimed): the number of queued or generating jobs never exceeds
\* MAX_QUEUE_SIZE.
C2_ActiveWithinCapacity == ActiveCount(history) <= MAX_QUEUE_SIZE

\* ---------------------------------------------------------------- C3
\* C3: an upload of n >= 1 valid files made when active + n exceeds the
\* ceiling changes neither the store nor the pending uploads (nothing of the
\* batch is or will be added) and sets the capacity error message.
C3_RejectsWholeBatch ==
    [][\A files \in FileLists :
          (/\ UploadBegin(files)
           /\ Len(ValidFiles(files)) >= 1
           /\ ActiveCount(history) + Len(ValidFiles(files)) > MAX_QUEUE_SIZE)
          => (/\ history' = history
              /\ uploads' = uploads
              /\ tasks' = tasks
              /\ error' = "Queue limit reached")]_vars

\* A batch was rejected while the store was below the ceiling by less than
\* the batch size, and nothing is pending.
C3_Witness ==
    /\ error = "Queue limit reached"
    /\ uploads = <<>>
    /\ ActiveCount(history) = MAX_QUEUE_SIZE - 1
    /\ Len(history) = MAX_QUEUE_SIZE - 1

\* ---------------------------------------------------------------- C4
\* The ids that became generating in this step.
Dispatched == {history'[k].id : k \in Generating(history')}
                 \ {history[k].id : k \in Generating(history)}

\* C4 (as claimed): a job is dispatched only when no job that was inserted
\* earlier (smaller id) is still queued.
C4_FifoByInsertion ==
    [][\A id \in Dispatched :
          \A k \in 1..Len(history') :
              history'[k].status = "queued" => history'[k].id > id]_vars

\* C4 (amended): a job is dispatched only when no job in front of it in the
\* store is queued.
C4_StoreOrder ==
    [][\A k \in Generating(history') :
          history'[k].id \in Dispatched
          => \A m \in 1..(k - 1) : history'[m].status # "queued"]_vars

\* The job in front was dispatched while a job inserted before it waits
\* behind it.
C4_Witness ==
    \E k \in Generating(history) :
        \E m \in (k + 1)..Len(history) :
            history[m].status = "queued" /\ history[m].id < history[k].id

\* ---------------------------------------------------------------- C5
\* C5: resubmitting a failed job leaves it queued, with the bytes and the
\* media type of its preview, without a result, and with the snapshot of the
\* settings of that moment (the patina intensity of the snapshot is the
\* slider's value while patina is enabled and 0 otherwise, as on upload).
C5_ResubmitFailed ==
    [][\A id \in Ids(history) :
          (handleRegenerate(id) /\ ItemOf(history, id).status = "failed")
          => LET old == ItemOf(history, id)
                 new == ItemOf(history', id)
             IN /\ new.status = "queued"
                /\ new.base64Data = old.originalImage.data
                /\ new.mimeType = old.originalImage.mime
                /\ new.generatedImage = EmptyString
                /\ new.cfg.materialType = settings.materialType
                /\ new.cfg.textureIntensity = settings.textureIntensity
                /\ new.cfg.patinaIntensity =
                       (IF settings.isPatinaEnabled THEN settings.patinaIntensity ELSE 0)
                /\ new.cfg.patinaVariation = settings.patinaVariation
                /\ new.cfg.shadowAngle = settings.shadowAngle
                /\ new.cfg.shadowIntensity = settings.shadowIntensity
                /\ new.cfg.backgroundDistance = settings.backgroundDistance
                /\ new.cfg.aspectRatio = settings.aspectRatio
                /\ new.cfg.enhancedLighting = settings.enhancedLighting]_vars

\* A job that failed on a rate limit was resubmitted during the cooldown of
\* its own call: it is queued again, has its bytes back, and its snapshot is
\* no longer the one it was dispatched with.
C5_Witness ==
    \E t \in tasks :
        /\ t.pc = "cooldown"
        /\ t.item.id \in Ids(history)
        /\ ItemOf(history, t.item.id).status = "queued"
        /\ ItemOf(history, t.item.id).base64Data = Bytes
        /\ ItemOf(history, t.item.id).cfg # t.item.cfg

\* ---------------------------------------------------------------- C6
\* The request of a call in flight carries the snapshot of its job (a texture
\* intensity of 0 is passed as 50).
RequestFromSnapshot ==
    \A t \in tasks :
        (t.pc = "call" /\ t.item.id \in Ids(history))
        => LET c == ItemOf(history, t.item.id).cfg
               r == t.request[1]
           IN /\ r.materialType = c.materialType
              /\ r.shadowAngle = c.shadowAngle
              /\ r.shadowIntensity = c.shadowIntensity
              /\ r.backgroundDistance = c.backgroundDistance
              /\ r.aspectRatio = c.aspectRatio
              /\ r.enhancedLighting = c.enhancedLighting
              /\ r.textureIntensity = (IF c.textureIntensity = 0 THEN 50 ELSE c.textureIntensity)
              /\ r.patinaIntensity = c.patinaIntensity
              /\ r.patinaVariation = c.patinaVariation

\* C6: a step that changes a setting leaves the store as it is; the request
\* of a dispatched job is built from the job's snapshot; and a job's snapshot
\* changes only in a resubmission of that job.
C6_SnapshotIsolation ==
    /\ []RequestFromSnapshot
    /\ [][settings' # settings => history' = history]_vars
    /\ [][\A id \in Ids(history) \cap Ids(history') :
             ItemOf(history', id).cfg # ItemOf(history, id).cfg
             => handleRegenerate(id)]_vars

\* A call is in flight for a job whose snapshot differs from what the
\* settings would give now.
C6_Witness ==
    \E t \in tasks :
        /\ t.pc = "call"
        /\ t.item.id \in Ids(history)
        /\ ItemOf(history, t.item.id).cfg # CaptureSettings(settings)
        /\ t.request[1].shadowAngle = ItemOf(history, t.item.id).cfg.shadowAngle

\* ---------------------------------------------------------------- C7
\* C7: no two records of the rating log carry the same job id, and after a
\* job is rated the log holds exactly one record for it, with that rating.
C7_OneRecordPerJob ==
    /\ [](\A j, k \in 1..Len(ratings) : ratings[j].id = ratings[k].id => j = k)
    /\ [][\A id \in Ids(history) : \A r \in RatingSamples :
             handleRate(id, r)
             => /\ Cardinality({k \in 1..Len(ratings') : ratings'[k].id = id}) = 1
                /\ \A k \in 1..Len(ratings') :
                       ratings'[k].id = id => ratings'[k].rating = r]_vars

\* Every rating click of the budget was spent on one job, and the log has
\* one record.
C7_Witness ==
    /\ budget.ratings = 0
    /\ Len(ratings) = 1
    /\ \E k \in 1..Len(history) :
           history[k].id = ratings[1].id /\ history[k].rating = ratings[1].rating

\* ---------------------------------------------------------------- C8
\* Positions of the high-rated records of the rating log.
HighRated == {k \in 1..Len(ratings) : ratings[k].rating >= 4}

\* The memory contexts of the calls in flight.
ContextsInFlight == {t.request[1].memoryContext : t \in {u \in tasks : u.pc = "call"}}

\* The log is the example: soft rated 4, soft rated 5, hard rated 3.
IsExampleLog ==
    /\ Len(ratings) = 3
    /\ <<ratings[1].cfg.shadowIntensity, ratings[1].rating>> = <<"soft", 4>>
    /\ <<ratings[2].cfg.shadowIntensity, ratings[2].rating>> = <<"soft", 5>>
    /\ <<ratings[3].cfg.shadowIntensity, ratings[3].rating>> = <<"hard", 3>>

\* C8: the profile is empty exactly when the log has no record rated 4 or
\* more; otherwise it is made of the high-rated records only (their number,
\* and values that occur among them); the example log gives soft.
C8_ProfileFromHighRated ==
    \A mc \in ContextsInFlight :
        /\ mc = EmptyProfile <=> HighRated = {}
        /\ mc.samples = Cardinality(HighRated)
        /\ HighRated # {} =>
              /\ mc.preferredShadow \in {ratings[k].cfg.shadowIntensity : k \in HighRated}
              /\ mc.preferredMaterial \in {ratings[k].cfg.materialType : k \in HighRated}
              /\ mc.preferredAngle \in {AngleBucket(ratings[k].cfg.shadowAngle) : k \in HighRated}
        /\ IsExampleLog => mc.preferredShadow = "soft"

\* The profile was computed on the example log and prefers soft.
C8_Witness ==
    /\ IsExampleLog
    /\ \E mc \in ContextsInFlight : mc.preferredShadow = "soft" /\ mc.samples = 2

\* ---------------------------------------------------------------- C9
\* The high-rated records in log order.
HighSeq == SelectSeq(ratings, LAMBDA r : r.rating >= 4)

Occurrences(arr, v) == {k \in 1..Len(arr) : arr[k] = v}
FirstOccurrence(arr, v) == CHOOSE k \in Occurrences(arr, v) : \A m \in Occurrences(arr, v) : k <= m
LastOccurrence(arr, v) == CHOOSE k \in Occurrences(arr, v) : \A m \in Occurrences(arr, v) : k >= m

\* m occurs most often in arr
IsMostFrequent(arr, m) ==
    /\ Occurrences(arr, m) # {}
    /\ \A k \in 1..Len(arr) :
           Cardinality(Occurrences(arr, arr[k])) <= Cardinality(Occurrences(arr, m))

\* The values that occur as often as m without being m.
TiedWith(arr, m) ==
    {arr[k] : k \in {j \in 1..Len(arr) :
        arr[j] # m /\ Cardinality(Occurrences(arr, arr[j])) = Cardinality(Occurrences(arr, m))}}

ShadowsOf(log) == [k \in 1..Len(log) |-> log[k].cfg.shadowIntensity]
MaterialsOf(log) == [k \in 1..Len(log) |-> log[k].cfg.materialType]
BucketsOf(log) == [k \in 1..Len(log) |-> AngleBucket(log[k].cfg.shadowAngle)]

\* m is most frequent in arr and first seen before every value tied with it.
ModeByFirstOccurrence(arr, m) ==
    /\ IsMostFrequent(arr, m)
    /\ \A v \in TiedWith(arr, m) : FirstOccurrence(arr, m) < FirstOccurrence(arr, v)

\* m is most frequent in arr and last seen before every value tied with it:
\* it is the first value to reach the maximal count.
ModeByReachingFirst(arr, m) ==
    /\ IsMostFrequent(arr, m)
    /\ \A v \in TiedWith(arr, m) : LastOccurrence(arr, m) < LastOccurrence(arr, v)

\* C9 (as claimed): each mode of the profile is a most frequent value of the
\* high-rated records and, among tied values, the one that occurs first.
C9_TieToFirstOccurrence ==
    \A mc \in ContextsInFlight :
        HighSeq # <<>> =>
            /\ ModeByFirstOccurrence(ShadowsOf(HighSeq), mc.preferredShadow)
            /\ ModeByFirstOccurrence(MaterialsOf(HighSeq), mc.preferredMaterial)
            /\ ModeByFirstOccurrence(BucketsOf(HighSeq), mc.preferredAngle)

\* C9 (amended): each mode of the profile is a most frequent value of the
\* high-rated records and, among tied values, the first to reach the maximal
\* count, that is, the one whose last occurrence comes first.
C9_TieToFirstReaching ==
    \A mc \in ContextsInFlight :
        HighSeq # <<>> =>
            /\ ModeByReachingFirst(ShadowsOf(HighSeq), mc.preferredShadow)
            /\ ModeByReachingFirst(MaterialsOf(HighSeq), mc.preferredMaterial)
            /\ ModeByReachingFirst(BucketsOf(HighSeq), mc.preferredAngle)

\* A profile was computed on a log in which the preferred shadow is tied with
\* a value that occurs before it.
C9_Witness ==
    \E mc \in ContextsInFlight :
        /\ HighSeq # <<>>
        /\ \E v \in TiedWith(ShadowsOf(HighSeq), mc.preferredShadow) :
               FirstOccurrence(ShadowsOf(HighSeq), v)
                   < FirstOccurrence(ShadowsOf(HighSeq), mc.preferredShadow)

\* --------------------------------------------------------------- C10
\* The rate-limit class as the claim gives it.
InRateLimitClass(err) == err.status = 429 \/ "429" \in err.message \/ "quota" \in err.message

\* After the failure of call t: its job is failed, the marker still names it,
\* and the call waits out the whole cooldown.
CooldownEntered(t) ==
    /\ t.item.id \in Ids(history') => ItemOf(history', t.item.id).status = "failed"
    /\ processingId' = t.item.id
    /\ [t EXCEPT !.pc = "cooldown", !.timer = COOLDOWN_MS] \in tasks'

\* While a call waits out its cooldown the marker names its job, no job is
\* generating and no other call exists.
NothingRunsInCooldown ==
    \A t \in tasks :
        t.pc = "cooldown"
        => /\ processingId = t.item.id
           /\ Generating(history) = {}
           /\ tasks = {t}
           /\ t.timer = COOLDOWN_MS

\* C10 (as claimed): every failure with an error of the rate-limit class
\* enters the cooldown, and nothing is dispatched during a cooldown.
C10_RateLimitCooldown ==
    /\ []NothingRunsInCooldown
    /\ [][\A t \in tasks : \A err \in ErrorSamples :
             (GenerateFails(t, err) /\ InRateLimitClass(err)) => CooldownEntered(t)]_vars

\* C10 (amended): every failure with an error of the rate-limit class whose
\* message does not carry the credential-expiry text enters the cooldown, and
\* nothing is dispatched during a cooldown.
C10_RateLimitCooldownUnlessExpired ==
    /\ []NothingRunsInCooldown
    /\ [][\A t \in tasks : \A err \in ErrorSamples :
             (/\ GenerateFails(t, err)
              /\ InRateLimitClass(err)
              /\ KeyExpiredText \notin err.message) => CooldownEntered(t)]_vars

\* A call waits out its cooldown, its job is failed, the queue runs and a
\* queued job is waiting.
C10_Witness ==
    \E t \in tasks :
        /\ t.pc = "cooldown"
        /\ t.item.id \in Ids(history)
        /\ ItemOf(history, t.item.id).status = "failed"
        /\ isQueueRunning
        /\ QueueCount(history) >= 1

\* --------------------------------------------------------------- C11
\* The jobs that are queued before the step are queued after it.
QueuedStayQueued ==
    \A k \in 1..Len(history) :
        history[k].status = "queued"
        => k <= Len(history') /\ history'[k] = history[k]

\* C11: every failure with an error that carries the credential-expiry text
\* marks the job failed, clears hasKey, sets the error message and pauses
\* the queue; the marker is released and no queued job is dispatched.
C11_KeyExpiredPauses ==
    [][\A t \in tasks : \A err \in ErrorSamples :
          (GenerateFails(t, err) /\ KeyExpiredText \in err.message)
          => /\ t.item.id \in Ids(history') =>
                    ItemOf(history', t.item.id).status = "failed"
             /\ hasKey' = FALSE
             /\ error' = "API Key session expired"
             /\ isQueueRunning' = FALSE
             /\ processingId' = NoId
             /\ Dispatched = {}
             /\ QueuedStayQueued]_vars

\* The key expired while the queue ran with a job waiting: the message is
\* shown, the key flag is down, the queue is paused and the job still waits.
C11_Witness ==
    /\ error = "API Key session expired"
    /\ ~hasKey
    /\ ~isQueueRunning
    /\ processingId = NoId
    /\ QueueCount(history) >= 1
    /\ \E k \in 1..Len(history) : history[k].status = "failed"

\* --------------------------------------------------------------- C12
\* The calls made in this step: tasks that reach generateProPhoto.
CallsMade == {t \in tasks' : t.pc = "call"} \ tasks

\* C12 (as claimed): no job becomes generating and generateProPhoto is not
\* called while hasKey is false.
C12_NoDispatchWithoutKey ==
    [][/\ Dispatched # {} => hasKey'
       /\ CallsMade # {} => hasKey]_vars

\* --------------------------------------------------------------- C13
\* C13: pausing leaves the call in flight and the store as they are; when a
\* call returns while the queue is paused, its job is completed or failed,
\* the marker is released (after the cooldown if the failure is a rate
\* limit), and the queued jobs stay queued.
C13_PauseDoesNotAbort ==
    /\ [][PauseQueue => tasks' = tasks /\ history' = history
                          /\ processingId' = processingId]_vars
    /\ [][\A t \in tasks :
             (GenerateSucceeds(t) /\ ~isQueueRunning)
             => /\ t.item.id \in Ids(history') =>
                       /\ ItemOf(history', t.item.id).status = "completed"
                       /\ ItemOf(history', t.item.id).generatedImage # EmptyString
                /\ processingId' = NoId
                /\ QueuedStayQueued]_vars
    /\ [][\A t \in tasks : \A err \in ErrorSamples :
             (GenerateFails(t, err) /\ ~isQueueRunning)
             => /\ t.item.id \in Ids(history') =>
                       ItemOf(history', t.item.id).status = "failed"
                /\ \/ processingId' = NoId
                   \/ \E u \in tasks' : u.pc = "cooldown" /\ u.item.id = t.item.id
                /\ QueuedStayQueued]_vars
    /\ [][\A t \in tasks :
             (CooldownElapsed(t) /\ ~isQueueRunning)
             => processingId' = NoId /\ QueuedStayQueued]_vars

\* The queue was paused while a call is in flight and another job waits.
C13_Witness ==
    /\ ~isQueueRunning
    /\ QueueCount(history) >= 1
    /\ \E t \in tasks :
           /\ t.pc = "call"
           /\ t.item.id \in Ids(history)
           /\ ItemOf(history, t.item.id).status = "generating"

\* --------------------------------------------------------------- C14
\* C14: the queue is paused initially, and a job becomes generating only in
\* a step after which the queue runs.
C14_NoDispatchWhilePaused ==
    /\ ~isQueueRunning
    /\ [][Dispatched # {} => isQueueRunning']_vars

\* Every job uploaded so far waits in a paused queue with a free marker.
C14_Witness ==
    /\ ~isQueueRunning
    /\ processingId = NoId
    /\ Len(history) = MAX_QUEUE_SIZE
    /\ QueueCount(history) = MAX_QUEUE_SIZE
    /\ budget.jobs + Len(history) = MaxJobs

\* --------------------------------------------------------------- C15
\* C15: after handleClearHistory the store is empty and the queue is paused.
C15_ClearEmptiesAndPauses ==
    [][handleClearHistory => history' = <<>> /\ isQueueRunning' = FALSE]_vars

\* The store was cleared under a call that is still in flight or cooling
\* down.
C15_Witness ==
    /\ history = <<>>
    /\ ~isQueueRunning
    /\ tasks # {}
    /\ processingId # NoId

\* --------------------------------------------------------------- C16
\* What a scan may do to an item: nothing, dispatch it, or fail it for
\* missing input; the last two only to a queued item.
ScanOutcomes(item) ==
    {item} \cup
    (IF item.status # "queued" THEN {}
     ELSE {[item EXCEPT !.status = "generating"],
           [item EXCEPT !.status = "failed", !.base64Data = Undefined]})

\* C16: when a call returns for a job id that is no longer in the store, the
\* store keeps its length and its items; no item receives the result or the
\* failure (the scan that follows the release of the marker may dispatch a
\* queued job, as after any return).
C16_LateResultDropped ==
    [][\A t \in tasks :
          (/\ t.item.id \notin Ids(history)
           /\ \/ GenerateSucceeds(t)
              \/ \E err \in ErrorSamples : GenerateFails(t, err))
          => /\ Len(history') = Len(history)
             /\ \A k \in 1..Len(history) : history'[k] \in ScanOutcomes(history[k])]_vars

\* A call is in flight for a job that was cleared, and the store holds a job
\* submitted since.
C16_Witness ==
    /\ history # <<>>
    /\ \E t \in tasks : t.pc = "call" /\ t.item.id \notin Ids(history)

C18_NoAutomaticRetry ==
    [][\A id \in Ids(history) :
          ItemOf(history, id).status = "failed"
          => \/ id \in Ids(history') /\ ItemOf(history', id).status = "failed"
             \/ handleRegenerate(id)
             \/ handleClearHistory]_vars

\* The queue went past a failed job: a job behind it in the store is
\* generating while the failed one is still failed.
C18_Witness ==
    /\ isQueueRunning
    /\ \E k \in 1..Len(history) : \E m \in (k + 1)..Len(history) :
           history[k].status = "failed" /\ history[m].status = "generating"

\* --------------------------------------------------------------- C19
\* The status, the result and the snapshot of an item.
Outcome(item) == <<item.status, item.generatedImage, item.cfg>>

\* C19 (as claimed): the status, the result and the snapshot of a completed
\* job never change while it is in the store.
C19_CompletedIsTerminal ==
    [][\A id \in Ids(history) \cap Ids(history') :
          ItemOf(history, id).status = "completed"
          => Outcome(ItemOf(history', id)) = Outcome(ItemOf(history, id))]_vars

\* C19 (amended): the status, the result and the snapshot of a completed job
\* change only in a resubmission of that job, which leaves it queued without
\* a result; a failed job changes status only in a resubmission as well.
C19_TerminalUntilResubmitted ==
    [][\A id \in Ids(history) \cap Ids(history') :
          (/\ ItemOf(history, id).status \in {"completed", "failed"}
           /\ Outcome(ItemOf(history', id)) # Outcome(ItemOf(history, id)))
          => /\ handleRegenerate(id)
             /\ ItemOf(history', id).status = "queued"
             /\ ItemOf(history', id).generatedImage = EmptyString]_vars

\* A job that carries a rating, so was completed, is queued or generating
\* again.
C19_Witness ==
    \E k \in 1..Len(history) :
        history[k].rating # 0 /\ history[k].status \in {"queued", "generating"}

\* --------------------------------------------------------------- C20
\* A job that is queued in a running queue is eventually completed or failed.
QueuedSettles ==
    \A id \in 1..MaxJobs :
        (/\ isQueueRunning
         /\ id \in Ids(history)
         /\ ItemOf(history, id).status = "queued")
        ~> (/\ id \in Ids(history)
            /\ ItemOf(history, id).status \in {"completed", "failed"})

\* C20 (as claimed): while the queue is left running and calls return, a job
\* that is queued in a running queue is eventually completed or failed, and
\* at no time are two jobs generating.
C20_QueueDrains ==
    /\ [](Cardinality(Generating(history)) <= 1)
    /\ QueuedSettles

\* C20 (amended): the same, unless jobs are resubmitted again and again for
\* ever.
C20_QueueDrainsUnlessResubmittedForever ==
    /\ [](Cardinality(Generating(history)) <= 1)
    /\ \/ []<><<\E id \in Ids(history) : handleRegenerate(id)>>_vars
       \/ QueuedSettles

\* The queue runs, its first job has settled and a later one is generating.
C20_Witness ==
    /\ isQueueRunning
    /\ \E k, m \in 1..Len(history) :
           /\ history[k].status \in {"completed", "failed"}
           /\ history[k].base64Data = Undefined
           /\ history[m].status = "generating"
           /\ processingId = history[m].id

\* ---------------------------------------------------------------------------
\* C21  Idle exit

\* Nothing is in flight and nothing in the store is queued.
Quiescent(h, pid) == pid = NoId /\ \A k \in 1..Len(h) : h[k].status # "queued"

\* C21: whenever the run flag is running, no job is in flight and no job in
\* the store is queued, the controller sets the run flag to paused.  No
\* committed state is running and quiescent, and a step out of a running
\* state into a quiescent one ends paused.
C21_IdleExit ==
    /\ [](Quiescent(history, processingId) => ~isQueueRunning)
    /\ [][(isQueueRunning /\ Quiescent(history', processingId')) => ~isQueueRunning']_vars

\* The queue ran dry: the last job of a store of two settled, nothing is
\* queued or in flight, and the flag is paused.
C21_Witness ==
    /\ Len(history) = 2
    /\ \A k \in 1..2 : history[k].status \in {"completed", "failed"}
    /\ \E k \in 1..2 : history[k].status = "completed"
    /\ Quiescent(history, processingId)
    /\ tasks = {}
    /\ uploads = <<>>
    /\ ~isQueueRunning

\* ---------------------------------------------------------------------------
\* C22  Generic failure

\* An error that is neither credential-expired nor in the rate-limit class.
GenericFailure(err) == KeyExpiredText \notin err.message /\ ~InRateLimitClass(err)

\* The positions of the queued jobs that have input to send.
QueuedWithInput(h) ==
    {k \in 1..Len(h) : h[k].status = "queued" /\ ~MissingInput(h[k])}

\* The smallest member of a non-empty set of positions.
FirstOf(S) == CHOOSE k \in S : \A m \in S : k <= m

\* C22: after a failure that is neither credential-expired nor rate-limit the
\* job is failed, no cooldown is entered and neither the key flag nor the
\* error message changes; if the queue is running and a queued job with input
\* exists, the flag stays running and the first such job in store order is
\* dispatched in the same step (it holds the marker and its call is at the
\* throttle delay); otherwise the marker is free and nothing is dispatched.
C22_GenericFailureContinues ==
    [][\A t \in tasks : \A err \in ErrorSamples :
          (GenerateFails(t, err) /\ GenericFailure(err))
          => /\ t.item.id \in Ids(history')
                => ItemOf(history', t.item.id).status = "failed"
             /\ \A u \in tasks' : u.pc # "cooldown"
             /\ hasKey' = hasKey /\ error' = error
             /\ IF isQueueRunning /\ QueuedWithInput(history) # {}
                THEN LET k == FirstOf(QueuedWithInput(history)) IN
                     /\ isQueueRunning'
                     /\ history'[k].status = "generating"
                     /\ processingId' = history[k].id
                     /\ Dispatched = {history[k].id}
                     /\ \E u \in tasks' : u.item.id = history[k].id /\ u.pc = "throttle"
                ELSE /\ processingId' = NoId
                     /\ Dispatched = {}]_vars

\* A job that had input has failed, the key flag is still set, the queue is
\* still running and a job behind the failed one has been dispatched: its
\* call waits at the throttle delay while a third job is queued.
C22_Witness ==
    /\ isQueueRunning
    /\ hasKey
    /\ Len(history) = 3
    /\ \E k \in 1..3 : \E m \in (k + 1)..3 :
           /\ history[k].status = "failed"
           /\ history[k].originalImage.data # EmptyString
           /\ history[m].status = "generating"
           /\ processingId = history[m].id
           /\ \E u \in tasks : u.item.id = history[m].id /\ u.pc = "throttle"
    /\ \E k \in 1..3 : history[k].status = "queued"
    /\ \A u \in tasks : u.pc # "cooldown"

\* ---------------------------------------------------------------------------
\* C23  Clearing the store and the rating log

\* C23: clearing the store leaves the persisted rating log unchanged: every
\* record present before the clear is present afterwards at the same place
\* with the same job id, value and configuration, and the preference profile
\* computed from the log after the clear equals the one computed before it.
C23_ClearKeepsRatings ==
    [][handleClearHistory
       => /\ Len(ratings') = Len(ratings)
          /\ \A k \in 1..Len(ratings) :
                 /\ ratings'[k].id = ratings[k].id
                 /\ ratings'[k].rating = ratings[k].rating
                 /\ ratings'[k].cfg = ratings[k].cfg
          /\ getAiMemoryContext(ratings') = getAiMemoryContext(ratings)]_vars

\* The store was cleared after a job had been rated high: the rated job is
\* gone from the store, its record is still in the log, and a call made for a
\* later job carries a profile built from it.
C23_Witness ==
    /\ Len(ratings) > 0
    /\ \A k \in 1..Len(ratings) :
           ratings[k].id \notin Ids(history) /\ ratings[k].rating >= HIGH_RATING
    /\ \E t \in tasks :
           /\ t.pc = "call"
           /\ t.item.id \in Ids(history)
           /\ t.request[1].memoryContext.samples = Len(ratings)

\* ---------------------------------------------------------------------------
\* C24  Rating a job

\* C24: rate(id, value) on a job of the store sets that job's rating to value
\* and changes nothing else in the store, and the log then holds a record
\* with the job's id, the value and the job's configuration snapshot as it
\* is at the time of rating, every record of another job staying as it was;
\* for an id that names no job neither the store nor the log changes.
C24_RateWritesSnapshot ==
    [][\A id \in Ids(history) \cup {AbsentId} : \A r \in RatingSamples :
          handleRate(id, r)
          => IF id \in Ids(history)
             THEN /\ Len(history') = Len(history)
                  /\ \A k \in 1..Len(history) :
                         IF history[k].id = id
                         THEN history'[k] = [history[k] EXCEPT !.rating = r]
                         ELSE history'[k] = history[k]
                  /\ \E k \in 1..Len(ratings') :
                         /\ ratings'[k].id = id
                         /\ ratings'[k].rating = r
                         /\ ratings'[k].cfg = ItemOf(history, id).cfg
                  /\ \A k \in 1..Len(ratings) :
                         ratings[k].id # id
                         => \E m \in 1..Len(ratings') : ratings'[m] = ratings[k]
             ELSE history' = history /\ ratings' = ratings]_vars

\* A job was rated after its snapshot had come to differ from the settings
\* on the panel: store and log agree on the value, and the record holds the
\* job's snapshot, not the settings.
C24_Witness ==
    \E k \in 1..Len(history) : \E m \in 1..Len(ratings) :
        /\ ratings[m].id = history[k].id
        /\ history[k].rating = ratings[m].rating
        /\ ratings[m].cfg = history[k].cfg
        /\ ratings[m].cfg # CaptureSettings(settings)

\* ---------------------------------------------------------------------------
\* C25  Status writes

\* The fields a status write leaves alone.
Kept(item) == <<item.id, item.originalImage, item.mimeType, item.cfg, item.rating>>

\* Store length, order and ids are kept, an item changes only if it is the
\* job with id written or a queued job the scan selects, and the only item
\* that becomes generating is the one the marker names.
OnlyNamedJobsWritten(written) ==
    /\ Len(history') = Len(history)
    /\ \A k \in 1..Len(history) :
           /\ Kept(history'[k]) = Kept(history[k])
           /\ history'[k] # history[k]
              => history[k].id = written \/ history[k].status = "queued"
           /\ (history'[k].status = "generating" /\ history[k].status # "generating")
              => history'[k].id = processingId'
    /\ Cardinality(Dispatched) <= 1

\* C25: every status write by the controller (to generating, completed or
\* failed) changes only the job whose id it names: in a step in which a call
\* returns, and in a step in which the queue is started, the other jobs, the
\* number of jobs and the store order are unchanged, and when no job has the
\* id of the returning call only the scan's own selection is written.
C25_WritesOnlyNamedJob ==
    [][/\ \A t \in tasks :
             (\/ GenerateSucceeds(t)
              \/ \E err \in ErrorSamples : GenerateFails(t, err)
              \/ CooldownElapsed(t))
             => OnlyNamedJobsWritten(t.item.id)
       /\ StartQueue => OnlyNamedJobsWritten(NoId)]_vars

\* A call has returned for the middle job of a store of three: it is
\* completed, the job behind it has been selected, and the job in front of
\* it is still failed from before.
C25_Witness ==
    /\ Len(history) = 3
    /\ history[1].status = "failed"
    /\ history[2].status = "completed"
    /\ history[3].status = "generating"
    /\ processingId = history[3].id

\* ---------------------------------------------------------------------------
\* C26  Compile has no hidden input

SameBatch(h, k, m) == \A j \in k..(m - 1) : h[j + 1].id = h[j].id + 1

\* The store holds the batches newest first, each in the order it was built.
NewestBatchFirst(h) ==
    \A k \in 1..Len(h) : \A m \in (k + 1)..Len(h) :
        h[k].id > h[m].id \/ SameBatch(h, k, m)

\* C27: at every scan the controller selects the queued job that comes first
\* in store order.  Submissions are prepended, so the store holds the batches
\* newest first; the selected job is therefore the first queued job of the
\* most recently submitted batch that has one: a job left queued is behind
\* it in the same batch or belongs to an earlier batch.  A resubmitted job
\* keeps its store position and its id.
C27_FirstInStoreOrder ==
    /\ [](NewestBatchFirst(history))
    /\ [][\A k \in Generating(history') :
             history'[k].id \in Dispatched
             => \A m \in 1..Len(history') :
                    history'[m].status = "queued"
                    => /\ m > k
                       /\ SameBatch(history', k, m) \/ history'[m].id < history'[k].id]_vars
    /\ [][\A u \in 1..Len(uploads) :
             UploadFinish(u)
             => LET n == Len(history') - Len(history) IN
                /\ n >= 0
                /\ \A j \in 1..Len(history) : history'[n + j].id = history[j].id
                /\ \A j \in 1..n : \A i \in 1..Len(history) :
                       history'[j].id > history[i].id]_vars
    /\ [][\A id \in Ids(history) :
             handleRegenerate(id)
             => /\ Len(history') = Len(history)
                /\ \A j \in 1..Len(history) : history'[j].id = history[j].id]_vars

\* The newest batch, in front, is done; of the batch of two behind it the
\* first job is in flight and the second waits.
C27_Witness ==
    /\ Len(history) = 3
    /\ history[1].id > history[2].id
    /\ history[3].id = history[2].id + 1
    /\ history[1].status = "completed"
    /\ history[2].status = "generating"
    /\ history[3].status = "queued"

\* ---------------------------------------------------------------------------
\* C28  Status edges

\* The step takes the job old to status s along an edge of the life cycle:
\* the scan selects a queued job (one without input fails inside the same
\* commit, after the write of generating), the call made for a generating
\* job returns, or a settled job is resubmitted.
StatusEdge(old, s) ==
    \/ /\ old.status = "queued" /\ s = "generating"
       /\ isQueueRunning'
       /\ processingId' = old.id
    \/ /\ old.status = "queued" /\ s = "failed"
       /\ MissingInput(old)
       /\ isQueueRunning \/ StartQueue
    \/ /\ old.status = "generating" /\ s = "completed"
       /\ \E t \in tasks : t.item.id = old.id /\ GenerateSucceeds(t)
    \/ /\ old.status = "generating" /\ s = "failed"
       /\ \E t \in tasks : t.item.id = old.id /\ \E err \in ErrorSamples : GenerateFails(t, err)
    \/ /\ old.status \in {"completed", "failed"} /\ s = "queued"
       /\ handleRegenerate(old.id)

\* The step is a rating, a pause or a setting change.
PassiveUserAction ==
    \/ PauseQueue
    \/ \E id \in Ids(history) \cup {AbsentId} : \E r \in RatingSamples : handleRate(id, r)
    \/ settings' # settings

\* C28: job status changes only along these edges: a job is created queued;
\* it becomes generating only from queued and only by the controller's scan;
\* it becomes completed or failed only from generating (a queued job without
\* input is taken through generating to failed inside one commit); it
\* becomes queued again only through resubmission.  Rating, pausing and
\* setting changes change no job's status, and starting the queue changes
\* none except through the scan it sets off.
C28_StatusEdges ==
    [][/\ \A k \in 1..Len(history') :
             IF history'[k].id \notin Ids(history)
             THEN history'[k].status = "queued"
             ELSE LET old == ItemOf(history, history'[k].id) IN
                  history'[k].status # old.status => StatusEdge(old, history'[k].status)
       /\ PassiveUserAction
          => /\ Len(history') = Len(history)
             /\ \A k \in 1..Len(history) : history'[k].status = history[k].status
       /\ StartQueue
          => /\ Len(history') = Len(history)
             /\ \A k \in 1..Len(history) :
                    history'[k].status # history[k].status
                    => history[k].status = "queued"]_vars

\* A job has gone round the whole cycle: it was completed and rated, then
\* resubmitted and dispatched again, and this time it failed.
C28_Witness ==
    \E k \in 1..Len(history) :
        /\ history[k].status = "failed"
        /\ history[k].rating # 0
        /\ history[k].originalImage.data # EmptyString

\* ---------------------------------------------------------------------------
\* C29  Boundary values in the request

\* C29: the request sent for a job carries exactly the values of the job's
\* configuration snapshot: the texture roughness, the coverage (patina)
\* intensity, the shadow angle and the elevation passed to the compile equal
\* the stored values, including the boundary value 0, and so do the numbers
\* the compiled prompt prints.
C29_RequestCarriesSnapshot ==
    \A t \in tasks :
        t.pc = "call"
        => LET c == t.item.cfg
               r == t.request[1]
               p == t.sent[1].text
           IN /\ r.textureIntensity = c.textureIntensity
              /\ r.patinaIntensity = c.patinaIntensity
              /\ r.shadowAngle = c.shadowAngle
              /\ r.backgroundDistance = c.backgroundDistance
              /\ p.lighting.castShadowAngle = c.shadowAngle
              /\ c.materialType = "texture" => p.material.printed = c.textureIntensity
              /\ c.materialType \in {"patina", "ammonia"}
                 => p.material.printed = c.patinaIntensity

\* ---------------------------------------------------------------------------
\* C30  Angle buckets

\* The multiple of 45 nearest to a whole number of degrees a.
Nearest45(a) == ((2 * a + 45) \div 90) * 45

\* The nearest multiples of 45 of the shadow angles of the records of log.
NearestBuckets(log) == [k \in 1..Len(log) |-> Nearest45(log[k].cfg.shadowAngle)]

\* C30: for every high-rated record with shadow angle a in 0..360 the angle
\* bucket that enters the profile's angle mode is the multiple of 45 nearest
\* to a (a = 0 falls in bucket 0), and the profile's preferred angle is the
\* most frequent such bucket.
C30_NearestAngleBucket ==
    \A mc \in ContextsInFlight :
        HighSeq # <<>> => IsMostFrequent(NearestBuckets(HighSeq), mc.preferredAngle)

\* ---------------------------------------------------------------------------
\* C31  Light-source angle

\* C31: for every shadow angle in 0..360 the compiled lighting directive
\* states the shadow angle itself and a light-source angle equal to
\* (angle + 180) mod 360, which lies in 0..359 and is half a turn away from
\* the shadow angle.
C31_LightOppositeShadow ==
    \A t \in tasks :
        t.pc = "call"
        => LET a == t.item.cfg.shadowAngle
               l == t.sent[1].text.lighting
           IN /\ a \in SliderAngles
              /\ l.castShadowAngle = a
              /\ l.lightSourceAngle \in 0..359
              /\ l.lightSourceAngle = IF a < 180 THEN a + 180 ELSE a - 180
              /\ (l.lightSourceAngle - a) % 360 = 180

\* The request of a call was compiled for the largest shadow angle, 360: the
\* light source wraps round to 180.
C31_Witness ==
    \E t \in tasks :
        /\ t.pc = "call"
        /\ t.item.cfg.shadowAngle = 360
        /\ t.sent[1].text.lighting.lightSourceAngle = 180

\* ---------------------------------------------------------------------------
\* C32  Elevation clause

\* C32: the compiled shadow directive contains an elevation clause exactly
\* when the background distance exceeds the grounded threshold of 5: for
\* every distance in 0..5 the directive describes the object as grounded
\* and has no elevation wording, and for every distance in 6..100 it
\* describes the object as detached from its shadow, in each of the six
\* intensity and lighting branches.
C32_ElevationAboveThreshold ==
    \A t \in tasks :
        t.pc = "call"
        => LET d == t.item.cfg.backgroundDistance
               l == t.sent[1].text.lighting
           IN IF d <= 5
              THEN /\ l.spatialInstruction.status = "GROUNDED"
                   /\ ~l.shadowPhysics.distanceEffect
              ELSE /\ l.spatialInstruction.status \in {"HOVERING", "FLOATING"}
                   /\ l.spatialInstruction.distance = d

\* ---------------------------------------------------------------------------
\* C33  The profile does not override the configuration

\* The profiles of the rating logs the compile is run with.
PanelProfiles == {getAiMemoryContext(log) : log \in PanelLogs}

\* The request compiled from the arguments req with the profile p in place
\* of theirs.
CompiledWith(req, p) == generateContentRequest([req EXCEPT !.memoryContext = p])

\* C33: the preference profile cannot override explicit configuration: for
\* the configuration of every call and any two profiles, the two compiled
\* requests have the same lighting block, material block, image, aspect
\* ratio and resolution tier, and differ at most in the preference block,
\* which carries the profile exactly when the profile is non-empty.  The
\* request the call sent is one of the two.
C33_ProfileCannotOverride ==
    \A t \in tasks :
        t.pc = "call"
        => \A p \in PanelProfiles :
               LET mine == t.sent[1]
                   other == CompiledWith(t.request[1], p)
               IN /\ other.text.lighting = mine.text.lighting
                  /\ other.text.material = mine.text.material
                  /\ other.imageConfig = mine.imageConfig
                  /\ other.inlineData = mine.inlineData
                  /\ mine.text.lighting.castShadowAngle = t.item.cfg.shadowAngle
                  /\ mine.text.lighting.shadowPhysics.intensity = t.item.cfg.shadowIntensity
                  /\ mine.imageConfig.aspectRatio = t.item.cfg.aspectRatio
                  /\ mine.text.learning = "profile" <=> t.request[1].memoryContext # EmptyProfile
                  /\ other.text.learning = "profile" <=> p # EmptyProfile
                  /\ p # EmptyProfile => other.text.memoryContext = p

\* A call was compiled with a profile that prefers another shadow intensity
\* than the job's snapshot has: the lighting block follows the snapshot.
C33_Witness ==
    \E t \in tasks :
        /\ t.pc = "call"
        /\ t.request[1].memoryContext.samples > 0
        /\ t.request[1].memoryContext.preferredShadow # t.item.cfg.shadowIntensity
        /\ t.sent[1].text.learning = "profile"
        /\ t.sent[1].text.lighting.shadowPhysics.intensity = t.item.cfg.shadowIntensity

\* ---------------------------------------------------------------------------
\* C34  Throttle before every call

\* C34: every call to the external generation collaborator is preceded by
\* the fixed throttle delay taken after the job was marked generating: a
\* call is made only by the task that waited out the full delay for that
\* job, the delay is started only by a dispatch and with nothing else
\* pending, and while it runs the job holds the marker.  Two consecutive
\* calls therefore have a whole throttle delay between them.
C34_ThrottleBeforeCall ==
    /\ [][\A t \in CallsMade :
             \E u \in tasks :
                 /\ u.pc = "throttle"
                 /\ u.timer = THROTTLE_MS
                 /\ u.item.id = t.item.id
                 /\ ThrottleElapsed(u)]_vars
    /\ [][\A u \in tasks' \ tasks :
             u.pc = "throttle"
             => /\ u.timer = THROTTLE_MS
                /\ u.item.id \in Dispatched
                /\ tasks' = {u}]_vars
    /\ [](\A u \in tasks :
             u.pc = "throttle"
             => /\ processingId = u.item.id
                /\ u.item.id \in Ids(history)
                   => ItemOf(history, u.item.id).status = "generating")

\* The second of two consecutive calls is outstanding: the job of the first
\* is completed, and the second call was made after its own delay.
C34_Witness ==
    /\ \E k \in 1..Len(history) : history[k].status = "completed"
    /\ \E t \in tasks :
           /\ t.pc = "call"
           /\ t.timer = 0
           /\ t.item.id \in Ids(history)
           /\ ItemOf(history, t.item.id).status = "generating"
           /\ ItemOf(history, t.item.id).generatedImage = EmptyString

\* ---------------------------------------------------------------------------
\* C35  Missing input

\* Job k of the store is queued and has no raw bytes or no media type.
QueuedWithoutInput(h, k) ==
    /\ h[k].status = "queued"
    /\ h[k].base64Data \in {Undefined, EmptyString} \/ h[k].mimeType \in {Undefined, EmptyString}

\* C35: a job selected by the scan that lacks raw image bytes or a media
\* type is marked failed without any call to the external collaborator: no
\* task is ever pending for it and it never holds the marker in a committed
\* state.  The marker is released without cooldown and the scan goes on in
\* the same step: if a queued job with input is left, the first one in store
\* order is dispatched and the run flag stays running; if none is left the
\* scan ends the run.
C35_MissingInputFails ==
    /\ [](\A t \in tasks : t.item.base64Data \notin {Undefined, EmptyString})
    /\ [][\A k \in 1..Len(history) :
             (/\ QueuedWithoutInput(history, k)
              /\ k <= Len(history')
              /\ history'[k].id = history[k].id
              /\ history'[k] # history[k]
              /\ ~handleRegenerate(history[k].id))
             => /\ history'[k] = [history[k] EXCEPT !.status = "failed",
                                                    !.base64Data = Undefined]
                /\ processingId' # history[k].id
                /\ \A u \in tasks' \ tasks : u.pc = "throttle" /\ u.item.id # history[k].id
                /\ IF QueuedWithInput(history') # {} \/ Dispatched # {}
                   THEN /\ isQueueRunning'
                        /\ Cardinality(Dispatched) = 1
                        /\ \A m \in 1..Len(history') :
                               history'[m].status = "queued" /\ ~MissingInput(history'[m])
                               => \E j \in 1..(m - 1) : history'[j].id \in Dispatched
                   ELSE ~isQueueRunning']_vars

\* The scan has failed a job without input and dispatched the job behind
\* it: the failed job has an empty preview, the other one is at its throttle
\* delay, and no call has been made yet.
C35_Witness ==
    /\ isQueueRunning
    /\ Len(history) = 2
    /\ history[1].status = "failed"
    /\ history[1].originalImage.data = EmptyString
    /\ history[2].status = "generating"
    /\ \E u \in tasks : u.pc = "throttle" /\ u.item.id = history[2].id

\* ---------------------------------------------------------------------------
\* C36  Submissions while the queue runs

\* The step ends the pending task t and releases the marker with the run
\* flag left alone: the call succeeded, failed for a generic reason, or the
\* cooldown is over.
Released(t) ==
    \/ GenerateSucceeds(t)
    \/ CooldownElapsed(t)
    \/ \E err \in ErrorSamples : GenerateFails(t, err) /\ GenericFailure(err)

\* C36: a job submitted or resubmitted while the run flag is running is
\* picked up without a further start.  While a job is in flight or in
\* cooldown the submission leaves the flag and the marker as they are and
\* the job queued; the scan that follows the release of the marker
\* dispatches the first queued job with input in the same step, with the
\* flag still running; and no committed state is running with the marker
\* free, so a running queue never waits for a start.
C36_PickedUpWithoutStart ==
    /\ [](isQueueRunning => processingId # NoId)
    /\ [][(isQueueRunning /\ \E u \in 1..Len(uploads) : UploadFinish(u))
          => /\ isQueueRunning'
             /\ processingId' = processingId
             /\ \A k \in 1..Len(history') :
                    history'[k].id \notin Ids(history) => history'[k].status = "queued"]_vars
    /\ [][\A id \in Ids(history) :
             (isQueueRunning /\ handleRegenerate(id))
             => /\ isQueueRunning'
                /\ processingId' = processingId
                /\ ItemOf(history', id).status = "queued"]_vars
    /\ [][\A t \in tasks :
             (isQueueRunning /\ Released(t) /\ QueuedWithInput(history) # {})
             => /\ isQueueRunning'
                /\ Dispatched = {history[FirstOf(QueuedWithInput(history))].id}
                /\ processingId' \in Dispatched]_vars

\* A job that failed on a rate limit was resubmitted during its cooldown:
\* it is queued, the queue is running, and the marker is still held until
\* the cooldown is over.
C36_Witness ==
    /\ isQueueRunning
    /\ \E t \in tasks :
           /\ t.pc = "cooldown"
           /\ processingId = t.item.id
           /\ t.item.id \in Ids(history)
           /\ ItemOf(history, t.item.id).status = "queued"

\* ---------------------------------------------------------------------------
\* C37  The marker is released

\* A call has settled with a rate-limit failure and its cooldown is running.
CooldownPending == \E t \in tasks : t.pc = "cooldown"

\* The marker no longer belongs to task t: it is free, or the scan of the
\* same step gave it to a newly dispatched job.
MarkerPassedOn(t) ==
    /\ t \notin tasks'
    /\ \/ processingId' = NoId
       \/ \E u \in tasks' \ tasks : u.pc = "throttle" /\ processingId' = u.item.id

\* C37: once the external call of the in-flight job has returned, by
\* success or by any failure class, the marker is eventually cleared, also
\* when the store was cleared or the queue paused meanwhile.  The marker is
\* set only while a task is pending for the job it names; the step in which
\* the call returns releases it, except that a rate-limit failure keeps it
\* for the cooldown; every cooldown ends; and the step that ends it
\* releases the marker.
C37_MarkerEventuallyCleared ==
    /\ [](processingId # NoId => \E t \in tasks : t.item.id = processingId)
    /\ [][\A t \in tasks :
             (GenerateSucceeds(t) \/ \E err \in ErrorSamples : GenerateFails(t, err))
             => \/ MarkerPassedOn(t)
                \/ /\ processingId' = processingId
                   /\ tasks' = {[t EXCEPT !.pc = "cooldown", !.timer = COOLDOWN_MS]}]_vars
    /\ [][\A t \in tasks : CooldownElapsed(t) => MarkerPassedOn(t)]_vars
    /\ CooldownPending ~> ~CooldownPending

\* The call settled with a rate-limit failure and the store was cleared
\* during the cooldown: the marker still names the job, which is gone, and
\* the queue is paused.
C37_Witness ==
    /\ ~isQueueRunning
    /\ history = <<>>
    /\ \E t \in tasks : t.pc = "cooldown" /\ processingId = t.item.id

\* ---------------------------------------------------------------------------
\* C38  One call outstanding, also across a clear

\* The pending tasks whose job is no longer in the store.
Orphaned == {t \in tasks : t.item.id \notin Ids(history)}

\* C38: at most one call to the external collaborator is outstanding at any
\* time, also across a clear.  At most one task is pending in every state;
\* while a task is pending for a job that was cleared from the store, the
\* marker still names that job and no job of the store is generating,
\* whatever the run flag; and a job is dispatched only in a step before
\* which either nothing was pending or the pending task ended in that step.
C38_OneCallAcrossClear ==
    /\ [](Cardinality(tasks) <= 1)
    /\ [](\A t \in Orphaned :
             /\ processingId = t.item.id
             /\ Generating(history) = {})
    /\ [][Dispatched # {} => \A t \in tasks : t \notin tasks']_vars

\* The store was cleared while a call was outstanding, a new job was
\* submitted and the queue restarted: the call is still outstanding, the
\* queue is running and the new job waits.
C38_Witness ==
    /\ isQueueRunning
    /\ \E t \in Orphaned : t.pc = "call"
    /\ Len(history) > 0
    /\ \A k \in 1..Len(history) : history[k].status = "queued"

\* ---------------------------------------------------------------------------
\* C39  Generating jobs and the marker

\* C39: in every reachable state a job with status generating has the id
\* held by the in-flight marker; when the marker is empty no job in the
\* store is generating.
C39_GeneratingHoldsMarker ==
    /\ \A k \in 1..Len(history) :
           history[k].status = "generating" => history[k].id = processingId
    /\ processingId = NoId => \A k \in 1..Len(history) : history[k].status # "generating"

\* A job is generating and holds the marker in a queue that was paused
\* while it was in flight, after a resubmission: its result of the first
\* round was rated.
C39_Witness ==
    /\ ~isQueueRunning
    /\ \E k \in 1..Len(history) :
           /\ history[k].status = "generating"
           /\ history[k].id = processingId
           /\ history[k].rating # 0

\* ---------------------------------------------------------------------------
\* C40  Store and rating log agree

\* C40: the store and the rating log never disagree about a rating: in
\* every reachable state, for every job in the store that has a rating, the
\* rating log holds a record with that job's id and the same rating value
\* and no record with that id and another value, also after the job is
\* resubmitted and processed again.
C40_StoreAndLogAgree ==
    \A k \in 1..Len(history) :
        history[k].rating # 0
        => /\ \E m \in 1..Len(ratings) :
                  ratings[m].id = history[k].id /\ ratings[m].rating = history[k].rating
           /\ \A m \in 1..Len(ratings) :
                  ratings[m].id = history[k].id => ratings[m].rating = history[k].rating

\* A rated job was resubmitted with other settings and completed again:
\* store and log hold the same value, and the record still has the snapshot
\* of the round that was rated.
C40_Witness ==
    \E k \in 1..Len(history) : \E m \in 1..Len(ratings) :
        /\ ratings[m].id = history[k].id
        /\ ratings[m].rating = history[k].rating
        /\ history[k].status = "completed"
        /\ ratings[m].cfg # history[k].cfg

====
